---- MODULE Spec2Model ----
(***************************************************************************)
(* Streaming estimators of the `average` crate: the Mean / Variance /      *)
(* Skewness / Kurtosis chain, the weighted means, the fixed-bin histogram  *)
(* and the P-square quantile estimator.                                    *)
(*                                                                         *)
(* f64 values are modelled in exact arithmetic as extended rationals       *)
(* <<num, den>> in lowest terms with den >= 0:                             *)
(*   den > 0    a finite number,                                           *)
(*   <<1, 0>>   +infinity,  <<-1, 0>>  -infinity,  <<0, 0>>  NaN.          *)
(* Rounding and the sign of zero are not modelled.                         *)
(***************************************************************************)
EXTENDS Integers, Sequences, FiniteSets, TLC

VARIABLES
    \* --- moments chain (SpecMoments) ---
    samples,     \* ghost: per slot, the samples the estimator stands for
    mean,        \* per slot, a Mean
    variance,    \* per slot, a Variance (MeanWithError)
    skewness,    \* per slot, a Skewness
    kurtosis,    \* per slot, a Kurtosis
    lastOp,      \* ghost: the last operation of the moments chain
    moments4,    \* per slot, a Moments4 that receives the same operations
    \* --- weighted means (SpecWeighted) ---
    wsamples,    \* ghost: per slot, the (sample, weight) pairs received
    wmean,       \* per slot, a WeightedMean
    wmerr,       \* per slot, a WeightedMeanWithError
    wLastOp,     \* ghost: the last operation on the weighted estimators
    wtwin,       \* per slot, a MeanWithError that receives the samples of
                 \* the slot without their weights
    \* --- histogram (SpecHistNew, SpecHist) ---
    searchImpl,  \* which slice::binary_search_by the build links
    hist,        \* per slot, a Histogram
    hseen,       \* ghost: per slot, the samples accepted since the last reset
    hres,        \* ghost: the last histogram call and its result
    \* --- quantile (SpecQuantile) ---
    quant,       \* a Quantile
    qsamples,    \* ghost: the samples added to quant
    qres,        \* ghost: the last call on quant and its result
    \* --- minimum and maximum (SpecMinMax) ---
    minEst,      \* per slot, a Min
    maxEst,      \* per slot, a Max
    msamples,    \* ghost: per slot, the set of samples the estimators stand for
    mLastOp,     \* ghost: the last operation on the Min and Max estimators
    \* --- distinct elements (SpecDistinct) ---
    distinct,    \* a DistinctElements<N>: buffer and sampling_rate
    ditems,      \* ghost: the set of items added so far
    dres,        \* ghost: the last add, its item, its random key, and whether
                 \* the item had been added before
    \* --- covariance (SpecCovariance) ---
    cov,         \* per slot, a Covariance fed the pairs (x, y)
    covSwapped,  \* per slot, a Covariance fed the swapped pairs (y, x)
    cpairs,      \* ghost: per slot, the sequence of pairs (x, y) it stands for
    cLastOp,     \* ghost: the last operation on the Covariance estimators
    \* --- parallel construction (SpecPar) ---
    pinput,      \* the items of the parallel iterator
    pieces       \* the parts the iterator is split into, each with its
                 \* partial estimators

momentsVars  == <<samples, mean, variance, skewness, kurtosis, lastOp, moments4>>
weightedVars == <<wsamples, wmean, wmerr, wLastOp, wtwin>>
histVars     == <<searchImpl, hist, hseen, hres>>
quantVars    == <<quant, qsamples, qres>>
minmaxVars   == <<minEst, maxEst, msamples, mLastOp>>
distinctVars == <<distinct, ditems, dres>>
covVars      == <<cov, covSwapped, cpairs, cLastOp>>
parVars      == <<pinput, pieces>>
vars == <<samples, mean, variance, skewness, kurtosis, lastOp, moments4,
          wsamples, wmean, wmerr, wLastOp, wtwin,
          searchImpl, hist, hseen, hres, quant, qsamples, qres,
          minEst, maxEst, msamples, mLastOp, distinct, ditems, dres,
          cov, covSwapped, cpairs, cLastOp, pinput, pieces>>

(***************************************************************************)
(* Bounds of the model.                                                    *)
(***************************************************************************)
MaxTotal == 4          \* samples held by all slots of the moments chain
MaxWTotal == 3         \* pairs held by all slots of the weighted estimators
F64Max == 1024           \* the largest finite float (stands for f64::MAX)

(***************************************************************************)
(* f64 arithmetic: exact values within the range -F64Max .. F64Max, a     *)
(* result beyond the range is an infinity.  Rounding and the sign of zero  *)
(* are not modelled.                                                       *)
(***************************************************************************)
Abs(i) == IF i < 0 THEN -i ELSE i
Sgn(i) == IF i > 0 THEN 1 ELSE IF i < 0 THEN -1 ELSE 0

RECURSIVE GCD(_, _)
GCD(a, b) == IF b = 0 THEN a ELSE GCD(b, a % b)

\* a quotient n / d with d > 0 beyond the largest finite float
Overflows(n, d) ==
    LET whole == Abs(n) \div d
    IN  whole > F64Max \/ (whole = F64Max /\ Abs(n) % d # 0)

Norm(n, d) ==
    IF d = 0 THEN <<Sgn(n), 0>>
    ELSE LET g == GCD(Abs(n), Abs(d))
             s == Sgn(d)
             num == (s * n) \div g
             den == (s * d) \div g
         IN  IF Overflows(num, den) THEN <<Sgn(num), 0>> ELSE <<num, den>>

R(i) == <<i, 1>>
NaN == <<0, 0>>
Inf == <<1, 0>>
NegInf == <<-1, 0>>

IsNaN(a) == a = NaN
IsFinite(a) == a[2] > 0

FNeg(a) == <<-a[1], a[2]>>
FAdd(a, b) ==
    IF a[2] = 0 /\ b[2] = 0
    THEN (IF a = b THEN a ELSE NaN)
    ELSE Norm(a[1] * b[2] + b[1] * a[2], a[2] * b[2])
FSub(a, b) == FAdd(a, FNeg(b))
FMul(a, b) == Norm(a[1] * b[1], a[2] * b[2])
FDiv(a, b) == Norm(a[1] * b[2], a[2] * b[1])

\* the largest r in lo..hi with r * r <= k
RECURSIVE ISqrtBetween(_, _, _)
ISqrtBetween(k, lo, hi) ==
    IF lo >= hi THEN lo
    ELSE LET mid == (lo + hi + 1) \div 2
         IN  IF mid * mid <= k THEN ISqrtBetween(k, mid, hi)
             ELSE ISqrtBetween(k, lo, mid - 1)

\* f64::sqrt: NaN for NaN and for negative values; a finite n / d gives
\* sqrt(n * d) / d, exact when n / d is a square and rounded down to a
\* multiple of 1 / d otherwise
FSqrt(a) ==
    IF a = NaN \/ a[1] < 0 THEN NaN
    ELSE IF a[2] = 0 THEN a
    ELSE Norm(ISqrtBetween(a[1] * a[2], 0, 46340), a[2])

FEq(a, b) == ~IsNaN(a) /\ ~IsNaN(b) /\ a = b
FLt(a, b) ==
    /\ ~IsNaN(a) /\ ~IsNaN(b)
    /\ IF a[2] = 0 /\ b[2] = 0 THEN a[1] < b[1]
       ELSE a[1] * b[2] < b[1] * a[2]
FLe(a, b) == FLt(a, b) \/ FEq(a, b)
FGt(a, b) == FLt(b, a)
FGe(a, b) == FLe(b, a)

\* f64::max: the other operand when one is NaN
FMax(a, b) == IF IsNaN(a) THEN b ELSE IF IsNaN(b) THEN a ELSE IF FLt(a, b) THEN b ELSE a

\* f64::min: the other operand when one is NaN
FMin(a, b) == IF IsNaN(a) THEN b ELSE IF IsNaN(b) THEN a ELSE IF FLt(b, a) THEN b ELSE a

(***************************************************************************)
(* Mean (src/src/moments/mean.rs)                                          *)
(***************************************************************************)
MeanNew == [avg |-> R(0), n |-> 0]
MeanIncrement(m) == [m EXCEPT !.n = @ + 1]
MeanAddInner(m, delta_n) == [m EXCEPT !.avg = FAdd(@, delta_n)]
MeanIsEmpty(m) == m.n = 0
MeanMean(m) == IF m.n > 0 THEN m.avg ELSE NaN
MeanLen(m) == m.n

MeanAdd(m, sample) ==
    LET m1 == MeanIncrement(m)
        delta_n == FDiv(FSub(sample, m1.avg), R(m1.n))
    IN  MeanAddInner(m1, delta_n)

MeanMerge(self, other) ==
    IF MeanIsEmpty(other) THEN self
    ELSE IF MeanIsEmpty(self) THEN other
    ELSE LET len_self == R(self.n)
             len_other == R(other.n)
             len_total == FAdd(len_self, len_other)
         IN  [n |-> self.n + other.n,
              avg |-> FDiv(FAdd(FMul(len_self, self.avg),
                                FMul(len_other, other.avg)), len_total)]

(***************************************************************************)
(* Variance, alias MeanWithError (src/src/moments/variance.rs)             *)
(***************************************************************************)
VarianceNew == [avg |-> MeanNew, sum_2 |-> R(0)]
VarianceIncrement(v) == [v EXCEPT !.avg = MeanIncrement(@)]
VarianceIsEmpty(v) == MeanIsEmpty(v.avg)
VarianceMean(v) == MeanMean(v.avg)
VarianceLen(v) == MeanLen(v.avg)

VarianceAddInner(v, delta_n) ==
    LET n == R(MeanLen(v.avg))
    IN  [avg |-> MeanAddInner(v.avg, delta_n),
         sum_2 |-> FAdd(v.sum_2,
                        FMul(FMul(FMul(delta_n, delta_n), n), FSub(n, R(1))))]

VarianceAdd(v, sample) ==
    LET v1 == VarianceIncrement(v)
        delta_n == FDiv(FSub(sample, MeanMean(v1.avg)), R(VarianceLen(v1)))
    IN  VarianceAddInner(v1, delta_n)

SampleVariance(v) ==
    IF MeanLen(v.avg) < 2 THEN NaN
    ELSE FDiv(v.sum_2, R(MeanLen(v.avg) - 1))

PopulationVariance(v) ==
    IF MeanLen(v.avg) = 0 THEN NaN
    ELSE FDiv(v.sum_2, R(MeanLen(v.avg)))

\* variance_of_mean without the branch for one sample
VarianceOfMeanNoSingle(v) ==
    IF MeanLen(v.avg) = 0 THEN NaN
    ELSE FDiv(SampleVariance(v), R(MeanLen(v.avg)))

VarianceOfMean(v) ==
    IF MeanLen(v.avg) = 0 THEN NaN
    ELSE IF MeanLen(v.avg) = 1 THEN R(0)
    ELSE FDiv(SampleVariance(v), R(MeanLen(v.avg)))

VarianceError(v) == FSqrt(VarianceOfMean(v))

\* Mutant of VarianceMerge: the cross term delta^2 * n_a * n_b / n is lost.
VarianceMergeNoCrossTerm(self, other) ==
    IF VarianceIsEmpty(other) THEN self
    ELSE IF VarianceIsEmpty(self) THEN other
    ELSE [avg |-> MeanMerge(self.avg, other.avg),
          sum_2 |-> FAdd(self.sum_2, other.sum_2)]

VarianceMerge(self, other) ==
    IF VarianceIsEmpty(other) THEN self
    ELSE IF VarianceIsEmpty(self) THEN other
    ELSE LET len_self == R(VarianceLen(self))
             len_other == R(VarianceLen(other))
             len_total == FAdd(len_self, len_other)
             delta == FSub(VarianceMean(other), VarianceMean(self))
         IN  [avg |-> MeanMerge(self.avg, other.avg),
              sum_2 |-> FAdd(self.sum_2,
                  FAdd(other.sum_2,
                       FDiv(FMul(FMul(FMul(delta, delta), len_self), len_other),
                            len_total)))]

(***************************************************************************)
(* Skewness (src/src/moments/skewness.rs)                                  *)
(***************************************************************************)
SkewnessNew == [avg |-> VarianceNew, sum_3 |-> R(0)]
SkewnessIncrement(s) == [s EXCEPT !.avg = VarianceIncrement(@)]
SkewnessIsEmpty(s) == VarianceIsEmpty(s.avg)
SkewnessMean(s) == VarianceMean(s.avg)
SkewnessLen(s) == VarianceLen(s.avg)

SkewnessAddInner(s, delta, delta_n) ==
    LET n == R(SkewnessLen(s))
        term == FMul(FMul(delta, delta_n), FSub(n, R(1)))
    IN  [sum_3 |-> FAdd(s.sum_3,
                        FSub(FMul(FMul(term, delta_n), FSub(n, R(2))),
                             FMul(FMul(R(3), delta_n), s.avg.sum_2))),
         avg |-> VarianceAddInner(s.avg, delta_n)]

SkewnessAdd(s, x) ==
    LET delta == FSub(x, s.avg.avg.avg)
        s1 == SkewnessIncrement(s)
        n == R(SkewnessLen(s1))
    IN  SkewnessAddInner(s1, delta, FDiv(delta, n))

\* Mutant of SkewnessMerge: the sign of (len_self - len_other) is flipped.
SkewnessMergeFlipped(self, other) ==
    IF SkewnessIsEmpty(other) THEN self
    ELSE IF SkewnessIsEmpty(self) THEN other
    ELSE LET len_self == R(SkewnessLen(self))
             len_other == R(SkewnessLen(other))
             len_total == FAdd(len_self, len_other)
             delta == FSub(SkewnessMean(other), SkewnessMean(self))
             delta_n == FDiv(delta, len_total)
         IN  [sum_3 |-> FAdd(self.sum_3,
                  FAdd(FAdd(other.sum_3,
                            FMul(FMul(FMul(FMul(FMul(delta, delta_n), delta_n),
                                           len_self), len_other),
                                 FSub(len_other, len_self))),
                       FMul(FMul(R(3), delta_n),
                            FSub(FMul(len_self, other.avg.sum_2),
                                 FMul(len_other, self.avg.sum_2))))),
              avg |-> VarianceMerge(self.avg, other.avg)]

SkewnessMerge(self, other) ==
    IF SkewnessIsEmpty(other) THEN self
    ELSE IF SkewnessIsEmpty(self) THEN other
    ELSE LET len_self == R(SkewnessLen(self))
             len_other == R(SkewnessLen(other))
             len_total == FAdd(len_self, len_other)
             delta == FSub(SkewnessMean(other), SkewnessMean(self))
             delta_n == FDiv(delta, len_total)
         IN  [sum_3 |-> FAdd(self.sum_3,
                  FAdd(FAdd(other.sum_3,
                            FMul(FMul(FMul(FMul(FMul(delta, delta_n), delta_n),
                                           len_self), len_other),
                                 FSub(len_self, len_other))),
                       FMul(FMul(R(3), delta_n),
                            FSub(FMul(len_self, other.avg.sum_2),
                                 FMul(len_other, self.avg.sum_2))))),
              avg |-> VarianceMerge(self.avg, other.avg)]

(***************************************************************************)
(* Kurtosis (src/src/moments/kurtosis.rs)                                  *)
(***************************************************************************)
KurtosisNew == [avg |-> SkewnessNew, sum_4 |-> R(0)]
KurtosisIncrement(k) == [k EXCEPT !.avg = SkewnessIncrement(@)]
KurtosisIsEmpty(k) == SkewnessIsEmpty(k.avg)
KurtosisMean(k) == SkewnessMean(k.avg)
KurtosisLen(k) == SkewnessLen(k.avg)

\* add_inner that updates the Skewness before it reads sum_2 and sum_3
KurtosisAddInnerPostUpdate(k, delta, delta_n) ==
    LET n == R(KurtosisLen(k))
        term == FMul(FMul(delta, delta_n), FSub(n, R(1)))
        delta_n_sq == FMul(delta_n, delta_n)
        inner == SkewnessAddInner(k.avg, delta, delta_n)
    IN  [sum_4 |-> FAdd(k.sum_4,
            FSub(FAdd(FMul(FMul(term, delta_n_sq),
                           FAdd(FSub(FMul(n, n), FMul(R(3), n)), R(3))),
                      FMul(FMul(R(6), delta_n_sq), inner.avg.sum_2)),
                 FMul(FMul(R(4), delta_n), inner.sum_3))),
         avg |-> inner]

KurtosisAddInner(k, delta, delta_n) ==
    LET n == R(KurtosisLen(k))
        term == FMul(FMul(delta, delta_n), FSub(n, R(1)))
        delta_n_sq == FMul(delta_n, delta_n)
    IN  [sum_4 |-> FAdd(k.sum_4,
            FSub(FAdd(FMul(FMul(term, delta_n_sq),
                           FAdd(FSub(FMul(n, n), FMul(R(3), n)), R(3))),
                      FMul(FMul(R(6), delta_n_sq), k.avg.avg.sum_2)),
                 FMul(FMul(R(4), delta_n), k.avg.sum_3))),
         avg |-> SkewnessAddInner(k.avg, delta, delta_n)]

KurtosisAdd(k, x) ==
    LET delta == FSub(x, k.avg.avg.avg.avg)
        k1 == KurtosisIncrement(k)
        n == R(KurtosisLen(k1))
    IN  KurtosisAddInner(k1, delta, FDiv(delta, n))

KurtosisMerge(self, other) ==
    IF KurtosisIsEmpty(other) THEN self
    ELSE IF KurtosisIsEmpty(self) THEN other
    ELSE LET len_self == R(KurtosisLen(self))
             len_other == R(KurtosisLen(other))
             len_total == FAdd(len_self, len_other)
             delta == FSub(KurtosisMean(other), KurtosisMean(self))
             delta_n == FDiv(delta, len_total)
             delta_n_sq == FMul(delta_n, delta_n)
         IN  [sum_4 |-> FAdd(self.sum_4,
                  FAdd(FAdd(FAdd(other.sum_4,
                      FMul(FMul(FMul(FMul(FMul(delta, delta_n), delta_n_sq),
                                     len_self), len_other),
                           FAdd(FSub(FMul(len_self, len_self),
                                     FMul(len_self, len_other)),
                                FMul(len_other, len_other)))),
                      FMul(FMul(R(6), delta_n_sq),
                           FAdd(FMul(FMul(len_self, len_self),
                                     other.avg.avg.sum_2),
                                FMul(FMul(len_other, len_other),
                                     self.avg.avg.sum_2)))),
                      FMul(FMul(R(4), delta_n),
                           FSub(FMul(len_self, other.avg.sum_3),
                                FMul(len_other, self.avg.sum_3))))),
              avg |-> SkewnessMerge(self.avg, other.avg)]

(***************************************************************************)
(* WeightedMean and WeightedMeanWithError (src/src/weighted_mean.rs)       *)
(***************************************************************************)
WeightedMeanNew == [weight_sum |-> R(0), weighted_avg |-> R(0)]

WeightedMeanAdd(m, sample, weight) ==
    LET weight_sum == FAdd(m.weight_sum, weight)
        prev_avg == m.weighted_avg
    IN  [weight_sum |-> weight_sum,
         weighted_avg |-> FAdd(prev_avg,
                               FMul(FDiv(weight, weight_sum),
                                    FSub(sample, prev_avg)))]

WeightedMeanIsEmpty(m) == FEq(m.weight_sum, R(0))
WeightedMeanSumWeights(m) == m.weight_sum
WeightedMeanMean(m) == IF ~WeightedMeanIsEmpty(m) THEN m.weighted_avg ELSE NaN

WeightedMeanMerge(self, other) ==
    IF WeightedMeanIsEmpty(other) THEN self
    ELSE IF WeightedMeanIsEmpty(self) THEN other
    ELSE LET total_weight_sum == FAdd(self.weight_sum, other.weight_sum)
         IN  [weighted_avg |->
                  FDiv(FAdd(FMul(self.weight_sum, self.weighted_avg),
                            FMul(other.weight_sum, other.weighted_avg)),
                       total_weight_sum),
              weight_sum |-> total_weight_sum]

WeightedMeanWithErrorNew ==
    [weight_sum_sq |-> R(0),
     weighted_avg |-> WeightedMeanNew,
     unweighted_avg |-> VarianceNew]

\* add that leaves the unweighted estimator alone when the weight is zero
WeightedMeanWithErrorAddSkipZero(e, sample, weight) ==
    [weight_sum_sq |-> FAdd(e.weight_sum_sq, FMul(weight, weight)),
     weighted_avg |-> WeightedMeanAdd(e.weighted_avg, sample, weight),
     unweighted_avg |-> IF weight = R(0) THEN e.unweighted_avg
                        ELSE VarianceAdd(e.unweighted_avg, sample)]

WeightedMeanWithErrorAdd(e, sample, weight) ==
    [weight_sum_sq |-> FAdd(e.weight_sum_sq, FMul(weight, weight)),
     weighted_avg |-> WeightedMeanAdd(e.weighted_avg, sample, weight),
     unweighted_avg |-> VarianceAdd(e.unweighted_avg, sample)]

WeightedMeanWithErrorIsEmpty(e) == VarianceIsEmpty(e.unweighted_avg)
WeightedMeanWithErrorLen(e) == VarianceLen(e.unweighted_avg)
WeightedMeanWithErrorWeightedMean(e) == WeightedMeanMean(e.weighted_avg)
WeightedMeanWithErrorUnweightedMean(e) == VarianceMean(e.unweighted_avg)
WeightedMeanWithErrorPopulationVariance(e) == PopulationVariance(e.unweighted_avg)
WeightedMeanWithErrorSampleVariance(e) == SampleVariance(e.unweighted_avg)

WeightedMeanWithErrorMerge(self, other) ==
    [weight_sum_sq |-> FAdd(self.weight_sum_sq, other.weight_sum_sq),
     weighted_avg |-> WeightedMeanMerge(self.weighted_avg, other.weighted_avg),
     unweighted_avg |-> VarianceMerge(self.unweighted_avg, other.unweighted_avg)]

(***************************************************************************)
(* impl_from_iterator! (src/src/macros.rs): new() followed by add() for    *)
(* every element, in order.                                                *)
(***************************************************************************)
Front(s) == SubSeq(s, 1, Len(s) - 1)
Last(s) == s[Len(s)]

RECURSIVE MeanFromIter(_)
MeanFromIter(s) ==
    IF s = <<>> THEN MeanNew ELSE MeanAdd(MeanFromIter(Front(s)), Last(s))

RECURSIVE VarianceFromIter(_)
VarianceFromIter(s) ==
    IF s = <<>> THEN VarianceNew
    ELSE VarianceAdd(VarianceFromIter(Front(s)), Last(s))

RECURSIVE SkewnessFromIter(_)
SkewnessFromIter(s) ==
    IF s = <<>> THEN SkewnessNew
    ELSE SkewnessAdd(SkewnessFromIter(Front(s)), Last(s))

RECURSIVE KurtosisFromIter(_)
KurtosisFromIter(s) ==
    IF s = <<>> THEN KurtosisNew
    ELSE KurtosisAdd(KurtosisFromIter(Front(s)), Last(s))

RECURSIVE WeightedMeanFromIter(_)
WeightedMeanFromIter(s) ==
    IF s = <<>> THEN WeightedMeanNew
    ELSE WeightedMeanAdd(WeightedMeanFromIter(Front(s)), Last(s)[1], Last(s)[2])

RECURSIVE WeightedMeanWithErrorFromIter(_)
WeightedMeanWithErrorFromIter(s) ==
    IF s = <<>> THEN WeightedMeanWithErrorNew
    ELSE WeightedMeanWithErrorAdd(WeightedMeanWithErrorFromIter(Front(s)),
                                  Last(s)[1], Last(s)[2])

(***************************************************************************)
(* Moments4, that is define_moments!(Moments4, 4)                          *)
(* (src/src/moments/mod.rs).  The array m holds the accumulators of the    *)
(* orders 2..MAX_MOMENT; the accumulator of order p, m[p - 2] in the code, *)
(* is m[p - 1] here, sequences being indexed from 1.                       *)
(***************************************************************************)
MAX_MOMENT == 4

\* IterBinomial::next: the coefficient that follows a, k being self.k > 0
IterBinomialNext(a, n, k) == (a * (n - k + 1)) \div k

Moments4New == [n |-> 0, avg |-> R(0), m |-> [i \in 1..(MAX_MOMENT - 1) |-> R(0)]]
Moments4IsEmpty(self) == self.n = 0
Moments4Len(self) == self.n
Moments4Mean(self) == IF self.n > 0 THEN self.avg ELSE NaN

Moments4CentralMoment(self, p) ==
    IF p = 0 THEN R(1)
    ELSE IF p = 1 THEN R(0)
    ELSE IF self.n > 0 THEN FDiv(self.m[p - 1], R(self.n)) ELSE NaN

Moments4SampleVariance(self) ==
    IF self.n < 2 THEN NaN ELSE FDiv(self.m[1], R(self.n - 1))

\* num_traits::pow(base, exp): base multiplied exp times
RECURSIVE FPow(_, _)
FPow(base, exp) == IF exp = 0 THEN R(1) ELSE FMul(FPow(base, exp - 1), base)

\* the outcome of a call that may fail an assertion
Returns(v) == [tag |-> "Ok", val |-> v]
Panics == [tag |-> "Panic", val |-> NaN]

\* skewness() without the early return for sum_3 == 0
SkewnessSkewnessNoShortcut(self) ==
    IF SkewnessIsEmpty(self) THEN Returns(NaN)
    ELSE LET n == R(SkewnessLen(self))
             sum_2 == self.avg.sum_2
         IN  IF FEq(sum_2, R(0)) THEN Panics
             ELSE Returns(FDiv(FMul(FSqrt(n), self.sum_3),
                               FSqrt(FMul(FMul(sum_2, sum_2), sum_2))))

\* Skewness::skewness in a build with debug assertions: debug_assert_ne!
\* panics when sum_2 is zero
SkewnessSkewness(self) ==
    IF SkewnessIsEmpty(self) THEN Returns(NaN)
    ELSE IF FEq(self.sum_3, R(0)) THEN Returns(R(0))
    ELSE LET n == R(SkewnessLen(self))
             sum_2 == self.avg.sum_2
         IN  IF FEq(sum_2, R(0)) THEN Panics
             ELSE Returns(FDiv(FMul(FSqrt(n), self.sum_3),
                               FSqrt(FMul(FMul(sum_2, sum_2), sum_2))))

\* Kurtosis::kurtosis in a build with debug assertions
KurtosisKurtosis(self) ==
    IF KurtosisIsEmpty(self) THEN Returns(NaN)
    ELSE IF FEq(self.sum_4, R(0)) THEN Returns(R(0))
    ELSE LET n == R(KurtosisLen(self))
             sum_2 == self.avg.avg.sum_2
         IN  IF FEq(sum_2, R(0)) THEN Panics
             ELSE Returns(FSub(FDiv(FMul(n, self.sum_4), FMul(sum_2, sum_2)), R(3)))

\* standardized_moment without the assertion on the variance
Moments4StandardizedMomentNoAssert(self, p) ==
    IF p = 0 THEN Returns(R(self.n))
    ELSE IF p = 1 THEN Returns(R(0))
    ELSE IF p = 2 THEN Returns(R(1))
    ELSE LET var_2 == Moments4CentralMoment(self, 2)
         IN  Returns(FDiv(Moments4CentralMoment(self, p), FPow(FSqrt(var_2), p)))

Moments4StandardizedMoment(self, p) ==
    IF p = 0 THEN Returns(R(self.n))
    ELSE IF p = 1 THEN Returns(R(0))
    ELSE IF p = 2 THEN Returns(R(1))
    ELSE LET var_2 == Moments4CentralMoment(self, 2)
         IN  IF FEq(var_2, R(0)) THEN Panics
             ELSE Returns(FDiv(Moments4CentralMoment(self, p),
                               FPow(FSqrt(var_2), p)))

\* the loop `for k in 1..(p - 1)` of add, from k on: mp is self.m[p - 2],
\* coeff and a the values left by the previous pass
RECURSIVE AddBinomLoop(_, _, _, _, _, _, _)
AddBinomLoop(mp, prev_m, p, k, coeff, a, factor_coeff) ==
    IF k > p - 2 THEN mp
    ELSE LET coeff1 == FMul(coeff, factor_coeff)
             a1 == IterBinomialNext(a, p, k)
         IN  AddBinomLoop(FAdd(mp, FMul(FMul(R(a1), prev_m[p - k - 1]), coeff1)),
                          prev_m, p, k + 1, coeff1, a1, factor_coeff)

\* the loop `for p in 2..=MAX_MOMENT` of add, from p on
RECURSIVE AddMomentLoop(_, _, _, _, _, _, _, _, _, _)
AddMomentLoop(m, prev_m, p, term1, term2, coeff_delta, factor1, factor2, delta, factor_coeff) ==
    IF p > MAX_MOMENT THEN m
    ELSE LET t1 == FMul(term1, factor1)
             t2 == FMul(term2, factor2)
             cd == FMul(coeff_delta, delta)
             mp == FAdd(m[p - 1], FMul(FAdd(t1, t2), cd))
         IN  AddMomentLoop(
                 [m EXCEPT ![p - 1] = AddBinomLoop(mp, prev_m, p, 1, R(1), 1, factor_coeff)],
                 prev_m, p + 1, t1, t2, cd, factor1, factor2, delta, factor_coeff)

Moments4Add(self, x) ==
    LET delta == FSub(x, self.avg)
        n == R(self.n + 1)
        over_n == FDiv(R(1), n)
        term1 == FMul(FSub(n, R(1)), FNeg(over_n))
        factor1 == FNeg(over_n)
        term2 == FMul(FSub(n, R(1)), over_n)
        factor2 == FMul(FSub(n, R(1)), over_n)
        factor_coeff == FMul(FNeg(delta), over_n)
    IN  [n |-> self.n + 1,
         avg |-> FAdd(self.avg, FDiv(delta, n)),
         m |-> AddMomentLoop(self.m, self.m, 2, term1, term2, delta, factor1,
                             factor2, delta, factor_coeff)]

\* the loop `for k in 1..(p - 1)` of merge, from k on
RECURSIVE MergeBinomLoop(_, _, _, _, _, _, _, _, _, _, _, _)
MergeBinomLoop(mp, prev_m, other_m, p, k, coeff_a, coeff_b, coeff_delta, a, n_a_over_n, n_b_over_n, delta) ==
    IF k > p - 2 THEN mp
    ELSE LET ca == FMul(coeff_a, FNeg(n_b_over_n))
             cb == FMul(coeff_b, n_a_over_n)
             cd == FMul(coeff_delta, delta)
             a1 == IterBinomialNext(a, p, k)
         IN  MergeBinomLoop(
                 FAdd(mp, FMul(FMul(R(a1), cd),
                               FAdd(FMul(prev_m[p - k - 1], ca),
                                    FMul(other_m[p - k - 1], cb)))),
                 prev_m, other_m, p, k + 1, ca, cb, cd, a1,
                 n_a_over_n, n_b_over_n, delta)

\* the loop `for p in 2..=MAX_MOMENT` of merge, from p on
RECURSIVE MergeMomentLoop(_, _, _, _, _, _, _, _, _, _, _)
MergeMomentLoop(m, prev_m, other_m, p, term_a, term_b, factor_a, factor_b, n_a_over_n, n_b_over_n, delta) ==
    IF p > MAX_MOMENT THEN m
    ELSE LET ta == FMul(term_a, factor_a)
             tb == FMul(term_b, factor_b)
             mp == FAdd(m[p - 1], FAdd(FAdd(other_m[p - 1], ta), tb))
         IN  MergeMomentLoop(
                 [m EXCEPT ![p - 1] =
                      MergeBinomLoop(mp, prev_m, other_m, p, 1, R(1), R(1), R(1), 1,
                                     n_a_over_n, n_b_over_n, delta)],
                 prev_m, other_m, p + 1, ta, tb, factor_a, factor_b,
                 n_a_over_n, n_b_over_n, delta)

\* merge whose factor_a has lost its sign
Moments4MergeSameSign(self, other) ==
    IF Moments4IsEmpty(other) THEN self
    ELSE IF Moments4IsEmpty(self) THEN other
    ELSE LET n_a == R(self.n)
             n_b == R(other.n)
             delta == FSub(other.avg, self.avg)
             n == R(self.n + other.n)
             n_a_over_n == FDiv(n_a, n)
             n_b_over_n == FDiv(n_b, n)
             factor_a == FMul(n_b_over_n, delta)
             factor_b == FMul(n_a_over_n, delta)
             term_a == FMul(n_a, factor_a)
             term_b == FMul(n_b, factor_b)
         IN  [n |-> self.n + other.n,
              avg |-> FAdd(self.avg, FMul(n_b_over_n, delta)),
              m |-> MergeMomentLoop(self.m, self.m, other.m, 2, term_a, term_b,
                                    factor_a, factor_b, n_a_over_n, n_b_over_n,
                                    delta)]

Moments4Merge(self, other) ==
    IF Moments4IsEmpty(other) THEN self
    ELSE IF Moments4IsEmpty(self) THEN other
    ELSE LET n_a == R(self.n)
             n_b == R(other.n)
             delta == FSub(other.avg, self.avg)
             n == R(self.n + other.n)
             n_a_over_n == FDiv(n_a, n)
             n_b_over_n == FDiv(n_b, n)
             factor_a == FMul(FNeg(n_b_over_n), delta)
             factor_b == FMul(n_a_over_n, delta)
             term_a == FMul(n_a, factor_a)
             term_b == FMul(n_b, factor_b)
         IN  [n |-> self.n + other.n,
              avg |-> FAdd(self.avg, FMul(n_b_over_n, delta)),
              m |-> MergeMomentLoop(self.m, self.m, other.m, 2, term_a, term_b,
                                    factor_a, factor_b, n_a_over_n, n_b_over_n,
                                    delta)]

(***************************************************************************)
(* Min and Max (src/src/minmax.rs)                                         *)
(***************************************************************************)
MinFromValue(x) == [x |-> x]
MinNew == MinFromValue(Inf)
MinMin(self) == self.x
MinAdd(self, x) == [self EXCEPT !.x = FMin(self.x, x)]

\* merge that takes the value of other
MinMergeOverwrite(self, other) == [self EXCEPT !.x = other.x]

MinMerge(self, other) == MinAdd(self, other.x)

MaxFromValue(x) == [x |-> x]
MaxNew == MaxFromValue(NegInf)
MaxMax(self) == self.x
MaxAdd(self, x) == [self EXCEPT !.x = FMax(self.x, x)]
MaxMerge(self, other) == MaxAdd(self, other.x)

(***************************************************************************)
(* DistinctElements<N> (src/src/distinct_elements.rs)                      *)
(* The buffer is a sequence of <<item, key>> pairs; the keys are the       *)
(* values the random number generator returns, an input of add.            *)
(***************************************************************************)
N == 2    \* the capacity of the buffer

DistinctNew == [buffer |-> <<>>, sampling_rate |-> R(1)]

DistinctRemove(self, a) ==
    [self EXCEPT !.buffer = SelectSeq(@, LAMBDA e : e[1] # a)]

\* Iterator::max_by returns the last of the elements that are maximal
DistinctFindMax(self) ==
    LET b == self.buffer
        k == CHOOSE i \in 1..Len(b) :
                 /\ \A j \in 1..Len(b) : FLe(b[j][2], b[i][2])
                 /\ \A j \in (i+1)..Len(b) : FLt(b[j][2], b[i][2])
    IN  b[k]

\* add that swaps the item into a full buffer whatever its key
DistinctAddAlwaysSwap(self, a, u) ==
    LET removed == DistinctRemove(self, a)
    IN  IF FGe(u, removed.sampling_rate) THEN removed
        ELSE IF Len(removed.buffer) < N
             THEN [removed EXCEPT !.buffer = Append(@, <<a, u>>)]
             ELSE LET mx == DistinctFindMax(removed)
                  IN  [buffer |-> Append(DistinctRemove(removed, mx[1]).buffer, <<a, u>>),
                       sampling_rate |-> IF FGt(u, mx[2]) THEN u ELSE mx[2]]

\* add that leaves a buffered copy of the item in place
DistinctAddNoRemove(self, a, u) ==
    IF FGe(u, self.sampling_rate) THEN self
    ELSE IF Len(self.buffer) < N
         THEN [self EXCEPT !.buffer = Append(@, <<a, u>>)]
         ELSE LET mx == DistinctFindMax(self)
              IN  IF FGt(u, mx[2])
                  THEN [self EXCEPT !.sampling_rate = u]
                  ELSE [buffer |-> Append(DistinctRemove(self, mx[1]).buffer, <<a, u>>),
                        sampling_rate |-> mx[2]]

\* add(a), u being the key drawn by self.rng.sample(Standard)
DistinctAdd(self, a, u) ==
    LET removed == DistinctRemove(self, a)
    IN  IF FGe(u, removed.sampling_rate) THEN removed
        ELSE IF Len(removed.buffer) < N
             THEN [removed EXCEPT !.buffer = Append(@, <<a, u>>)]
             ELSE LET mx == DistinctFindMax(removed)
                  IN  IF FGt(u, mx[2])
                      THEN [removed EXCEPT !.sampling_rate = u]
                      ELSE [buffer |-> Append(DistinctRemove(removed, mx[1]).buffer, <<a, u>>),
                            sampling_rate |-> mx[2]]

DistinctEstimate(self) == FDiv(R(Len(self.buffer)), self.sampling_rate)

(***************************************************************************)
(* Covariance (src/src/covariance.rs)                                      *)
(***************************************************************************)
CovarianceNew ==
    [avg_x |-> R(0), sum_x_2 |-> R(0), avg_y |-> R(0), sum_y_2 |-> R(0),
     sum_prod |-> R(0), n |-> 0]

\* add that updates avg_y by the increment of avg_x
CovarianceAddPasted(self, x, y) ==
    LET n == R(self.n + 1)
        delta_x == FSub(x, self.avg_x)
        delta_x_n == FDiv(delta_x, n)
        delta_y_n == FDiv(FSub(y, self.avg_y), n)
        avg_y == FAdd(self.avg_y, delta_x_n)
    IN  [n |-> self.n + 1,
         avg_x |-> FAdd(self.avg_x, delta_x_n),
         sum_x_2 |-> FAdd(self.sum_x_2,
                          FMul(FMul(FMul(delta_x_n, delta_x_n), n), FSub(n, R(1)))),
         avg_y |-> avg_y,
         sum_y_2 |-> FAdd(self.sum_y_2,
                          FMul(FMul(FMul(delta_y_n, delta_y_n), n), FSub(n, R(1)))),
         sum_prod |-> FAdd(self.sum_prod, FMul(delta_x, FSub(y, avg_y)))]

CovarianceAdd(self, x, y) ==
    LET n == R(self.n + 1)
        delta_x == FSub(x, self.avg_x)
        delta_x_n == FDiv(delta_x, n)
        delta_y_n == FDiv(FSub(y, self.avg_y), n)
        avg_y == FAdd(self.avg_y, delta_y_n)
    IN  [n |-> self.n + 1,
         avg_x |-> FAdd(self.avg_x, delta_x_n),
         sum_x_2 |-> FAdd(self.sum_x_2,
                          FMul(FMul(FMul(delta_x_n, delta_x_n), n), FSub(n, R(1)))),
         avg_y |-> avg_y,
         sum_y_2 |-> FAdd(self.sum_y_2,
                          FMul(FMul(FMul(delta_y_n, delta_y_n), n), FSub(n, R(1)))),
         sum_prod |-> FAdd(self.sum_prod, FMul(delta_x, FSub(y, avg_y)))]

PopulationCovariance(self) ==
    IF self.n < 1 THEN NaN ELSE FDiv(self.sum_prod, R(self.n))

SampleCovariance(self) ==
    IF self.n < 2 THEN NaN ELSE FDiv(self.sum_prod, R(self.n - 1))

CovarianceLen(self) == self.n
CovarianceIsEmpty(self) == self.n = 0
CovarianceMeanX(self) == IF self.n > 0 THEN self.avg_x ELSE NaN
CovarianceMeanY(self) == IF self.n > 0 THEN self.avg_y ELSE NaN

SampleVarianceX(self) ==
    IF self.n < 2 THEN NaN ELSE FDiv(self.sum_x_2, R(self.n - 1))

PopulationVarianceX(self) ==
    IF self.n = 0 THEN NaN ELSE FDiv(self.sum_x_2, R(self.n))

SampleVarianceY(self) ==
    IF self.n < 2 THEN NaN ELSE FDiv(self.sum_y_2, R(self.n - 1))

PopulationVarianceY(self) ==
    IF self.n = 0 THEN NaN ELSE FDiv(self.sum_y_2, R(self.n))

CovarianceMerge(self, other) ==
    IF other.n = 0 THEN self
    ELSE IF self.n = 0 THEN other
    ELSE LET delta_x == FSub(other.avg_x, self.avg_x)
             delta_y == FSub(other.avg_y, self.avg_y)
             len_self == R(self.n)
             len_other == R(other.n)
             len_total == FAdd(len_self, len_other)
             Cross(d1, d2) ==
                 FDiv(FMul(FMul(FMul(d1, d2), len_self), len_other), len_total)
         IN  [avg_x |-> FDiv(FAdd(FMul(len_self, self.avg_x),
                                  FMul(len_other, other.avg_x)), len_total),
              sum_x_2 |-> FAdd(self.sum_x_2,
                               FAdd(other.sum_x_2, Cross(delta_x, delta_x))),
              avg_y |-> FDiv(FAdd(FMul(len_self, self.avg_y),
                                  FMul(len_other, other.avg_y)), len_total),
              sum_y_2 |-> FAdd(self.sum_y_2,
                               FAdd(other.sum_y_2, Cross(delta_y, delta_y))),
              sum_prod |-> FAdd(self.sum_prod,
                                FAdd(other.sum_prod, Cross(delta_x, delta_y))),
              n |-> self.n + other.n]

(***************************************************************************)
(* impl_from_par_iterator! (src/src/macros.rs): fold with new() and add on *)
(* every part of the input, then reduce with new() and merge.  The macro   *)
(* is instantiated per estimator; a partial result here holds one Min, Max,*)
(* Mean and Variance, all fed the same items.                              *)
(***************************************************************************)
\* || $name::new()
ParNew == [min |-> MinNew, max |-> MaxNew, mean |-> MeanNew, variance |-> VarianceNew]

\* |mut e, i| { e.add(i); e }
ParFoldStep(e, i) ==
    [min |-> MinAdd(e.min, i), max |-> MaxAdd(e.max, i),
     mean |-> MeanAdd(e.mean, i), variance |-> VarianceAdd(e.variance, i)]

\* a reduction that drops its right operand
ParReduceKeepsLeft(a, b) == a

\* |mut a, b| { a.merge(&b); a }
ParReduceStep(a, b) ==
    [min |-> MinMerge(a.min, b.min), max |-> MaxMerge(a.max, b.max),
     mean |-> MeanMerge(a.mean, b.mean),
     variance |-> VarianceMerge(a.variance, b.variance)]

(***************************************************************************)
(* Values of the variables of the components a specification leaves alone. *)
(***************************************************************************)
Slots == {1, 2, 3}
WSlots == {1, 2}
HSlots == {1, 2}

MomentsIdle ==
    /\ samples = [i \in Slots |-> <<>>]
    /\ mean = [i \in Slots |-> MeanNew]
    /\ variance = [i \in Slots |-> VarianceNew]
    /\ skewness = [i \in Slots |-> SkewnessNew]
    /\ kurtosis = [i \in Slots |-> KurtosisNew]
    /\ lastOp = [op |-> "new", dst |-> 1, src |-> 1]
    /\ moments4 = [i \in Slots |-> Moments4New]

WeightedIdle ==
    /\ wsamples = [i \in WSlots |-> <<>>]
    /\ wmean = [i \in WSlots |-> WeightedMeanNew]
    /\ wmerr = [i \in WSlots |-> WeightedMeanWithErrorNew]
    /\ wLastOp = [op |-> "new", dst |-> 1, src |-> 1]
    /\ wtwin = [i \in WSlots |-> VarianceNew]

HistIdle ==
    /\ searchImpl = "none"
    /\ hist = <<>>
    /\ hseen = <<>>
    /\ hres = <<>>

QuantIdle ==
    /\ quant = [q |-> <<>>, n |-> <<>>, m |-> <<>>, dm |-> <<>>]
    /\ qsamples = <<>>
    /\ qres = [op |-> "none", arg |-> <<0, 1>>, out |-> "Ok", p |-> <<0, 1>>]

MinMaxIdle ==
    /\ minEst = [i \in Slots |-> MinNew]
    /\ maxEst = [i \in Slots |-> MaxNew]
    /\ msamples = [i \in Slots |-> {}]
    /\ mLastOp = [op |-> "new", dst |-> 1, src |-> 1]

DistinctIdle ==
    /\ distinct = DistinctNew
    /\ ditems = {}
    /\ dres = [op |-> "new", a |-> 0, u |-> R(0), repeated |-> FALSE]

ParIdle ==
    /\ pinput = <<>>
    /\ pieces = <<>>

CSlots == {1, 2}

CovIdle ==
    /\ cov = [i \in CSlots |-> CovarianceNew]
    /\ covSwapped = [i \in CSlots |-> CovarianceNew]
    /\ cpairs = [i \in CSlots |-> <<>>]
    /\ cLastOp = [op |-> "new", dst |-> 1, src |-> 1]

(***************************************************************************)
(* SpecMoments: three slots, each holding a Mean, a Variance, a Skewness   *)
(* and a Kurtosis that receive the same add and merge calls.               *)
(***************************************************************************)
SampleVals == {R(-1), R(0), R(2)}

RECURSIVE SumLen(_, _)
SumLen(f, S) ==
    IF S = {} THEN 0
    ELSE LET i == CHOOSE j \in S : TRUE
         IN  Len(f[i]) + SumLen(f, S \ {i})

InitMoments ==
    /\ ParIdle
    /\ CovIdle
    /\ DistinctIdle
    /\ MinMaxIdle
    /\ MomentsIdle
    /\ WeightedIdle
    /\ HistIdle
    /\ QuantIdle

\* e.add(x) on the four estimators of slot i
MomentsAdd(i, x) ==
    /\ SumLen(samples, Slots) < MaxTotal
    /\ samples' = [samples EXCEPT ![i] = Append(@, x)]
    /\ mean' = [mean EXCEPT ![i] = MeanAdd(@, x)]
    /\ variance' = [variance EXCEPT ![i] = VarianceAdd(@, x)]
    /\ skewness' = [skewness EXCEPT ![i] = SkewnessAdd(@, x)]
    /\ kurtosis' = [kurtosis EXCEPT ![i] = KurtosisAdd(@, x)]
    /\ lastOp' = [op |-> "add", dst |-> i, src |-> i]
    /\ moments4' = [moments4 EXCEPT ![i] = Moments4Add(@, x)]
    /\ UNCHANGED <<weightedVars, histVars, quantVars, minmaxVars, distinctVars, covVars, parVars>>

\* a.merge(&b) on the four estimators of slot i, with those of slot j
MomentsMerge(i, j) ==
    /\ i # j
    /\ SumLen(samples, Slots) + Len(samples[j]) <= MaxTotal
    /\ samples' = [samples EXCEPT ![i] = @ \o samples[j]]
    /\ mean' = [mean EXCEPT ![i] = MeanMerge(@, mean[j])]
    /\ variance' = [variance EXCEPT ![i] = VarianceMerge(@, variance[j])]
    /\ skewness' = [skewness EXCEPT ![i] = SkewnessMerge(@, skewness[j])]
    /\ kurtosis' = [kurtosis EXCEPT ![i] = KurtosisMerge(@, kurtosis[j])]
    /\ lastOp' = [op |-> "merge", dst |-> i, src |-> j]
    /\ moments4' = [moments4 EXCEPT ![i] = Moments4Merge(@, moments4[j])]
    /\ UNCHANGED <<weightedVars, histVars, quantVars, minmaxVars, distinctVars, covVars, parVars>>

NextMoments ==
    \/ \E i \in Slots, x \in SampleVals : MomentsAdd(i, x)
    \/ \E i \in Slots, j \in Slots : MomentsMerge(i, j)

SpecMoments == InitMoments /\ [][NextMoments]_vars

(***************************************************************************)
(* Claims about the moments chain.                                         *)
(***************************************************************************)

C2_KurtosisMergeAssocComm ==
    LET A == kurtosis[1]
        B == kurtosis[2]
        C == kurtosis[3]
        left == KurtosisMerge(KurtosisMerge(A, B), C)
        right == KurtosisMerge(A, KurtosisMerge(B, C))
        swapped == KurtosisMerge(B, KurtosisMerge(A, C))
    IN  /\ left = right
        /\ left = swapped

\* C2 witness: three non-empty estimators with pairwise different means, one
\* of them itself the result of a merge, whose union is skewed.
C2_Witness ==
    /\ \A i \in Slots : ~KurtosisIsEmpty(kurtosis[i])
    /\ \A i, j \in Slots : i # j => KurtosisMean(kurtosis[i]) # KurtosisMean(kurtosis[j])
    /\ lastOp.op = "merge"
    /\ LET m == KurtosisMerge(KurtosisMerge(kurtosis[1], kurtosis[2]), kurtosis[3])
       IN  m.avg.sum_3 # R(0) /\ m.sum_4 # R(0)

(***************************************************************************)
(* SpecWeighted: two slots, each holding a WeightedMean and a              *)
(* WeightedMeanWithError that receive the same add and merge calls.        *)
(***************************************************************************)
WSampleVals == {R(1), R(3)}
WeightVals == {R(0), R(1), R(2)}

InitWeighted ==
    /\ ParIdle
    /\ CovIdle
    /\ DistinctIdle
    /\ MinMaxIdle
    /\ MomentsIdle
    /\ WeightedIdle
    /\ HistIdle
    /\ QuantIdle

\* a.add(sample, weight) on the two estimators of slot i
WeightedAdd(i, x, w) ==
    /\ SumLen(wsamples, WSlots) < MaxWTotal
    /\ wsamples' = [wsamples EXCEPT ![i] = Append(@, <<x, w>>)]
    /\ wmean' = [wmean EXCEPT ![i] = WeightedMeanAdd(@, x, w)]
    /\ wmerr' = [wmerr EXCEPT ![i] = WeightedMeanWithErrorAdd(@, x, w)]
    /\ wLastOp' = [op |-> "add", dst |-> i, src |-> i]
    /\ wtwin' = [wtwin EXCEPT ![i] = VarianceAdd(@, x)]
    /\ UNCHANGED <<momentsVars, histVars, quantVars, minmaxVars, distinctVars, covVars, parVars>>

\* a.merge(&b) on the two estimators of slot i, with those of slot j
WeightedMerge(i, j) ==
    /\ i # j
    /\ SumLen(wsamples, WSlots) + Len(wsamples[j]) <= MaxWTotal
    /\ wsamples' = [wsamples EXCEPT ![i] = @ \o wsamples[j]]
    /\ wmean' = [wmean EXCEPT ![i] = WeightedMeanMerge(@, wmean[j])]
    /\ wmerr' = [wmerr EXCEPT ![i] = WeightedMeanWithErrorMerge(@, wmerr[j])]
    /\ wLastOp' = [op |-> "merge", dst |-> i, src |-> j]
    /\ wtwin' = [wtwin EXCEPT ![i] = VarianceMerge(@, wtwin[j])]
    /\ UNCHANGED <<momentsVars, histVars, quantVars, minmaxVars, distinctVars, covVars, parVars>>

NextWeighted ==
    \/ \E i \in WSlots, x \in WSampleVals, w \in WeightVals : WeightedAdd(i, x, w)
    \/ \E i \in WSlots, j \in WSlots : WeightedMerge(i, j)

SpecWeighted == InitWeighted /\ [][NextWeighted]_vars

(***************************************************************************)
(* Claims about merging with an empty estimator.                           *)
(***************************************************************************)
MergeEmptyIdentityMoments ==
    \A i \in Slots :
        /\ MeanMerge(mean[i], MeanNew) = mean[i]
        /\ MeanMerge(MeanNew, mean[i]) = mean[i]
        /\ VarianceMerge(variance[i], VarianceNew) = variance[i]
        /\ VarianceMerge(VarianceNew, variance[i]) = variance[i]
        /\ SkewnessMerge(skewness[i], SkewnessNew) = skewness[i]
        /\ SkewnessMerge(SkewnessNew, skewness[i]) = skewness[i]
        /\ KurtosisMerge(kurtosis[i], KurtosisNew) = kurtosis[i]
        /\ KurtosisMerge(KurtosisNew, kurtosis[i]) = kurtosis[i]

MergeEmptyIdentityWeighted ==
    \A i \in WSlots :
        /\ WeightedMeanMerge(wmean[i], WeightedMeanNew) = wmean[i]
        /\ WeightedMeanMerge(WeightedMeanNew, wmean[i]) = wmean[i]
        /\ WeightedMeanWithErrorMerge(wmerr[i], WeightedMeanWithErrorNew) = wmerr[i]
        /\ WeightedMeanWithErrorMerge(WeightedMeanWithErrorNew, wmerr[i]) = wmerr[i]

\* C3: merging with an empty estimator is the identity: for every reachable
\* state E of every estimator type, merge(E, empty) leaves every field of E
\* unchanged and merge(empty, E) has every field equal to E's.
C3_MergeEmptyIsIdentity ==
    /\ MergeEmptyIdentityMoments
    /\ MergeEmptyIdentityWeighted

(***************************************************************************)
(* Histogram (src/src/histogram.rs, define_histogram!(name, LEN))          *)
(***************************************************************************)
LEN == 2               \* number of bins of the histogram type of the model
MaxHCount == 3         \* sum of all bin counters of all slots

\* f64::partial_cmp: None when either side is NaN
PartialCmp(p, x) ==
    IF IsNaN(p) \/ IsNaN(x) THEN "None"
    ELSE IF FLt(p, x) THEN "Less"
    ELSE IF FGt(p, x) THEN "Greater"
    ELSE "Equal"

\* slice::binary_search_by as shipped by Rust 1.52 .. 1.81: returns as soon
\* as a probe compares Equal.  Indices are 0-based, as in the source.
RECURSIVE BinarySearchEarlyReturn(_, _, _, _, _)
BinarySearchEarlyReturn(s, x, left, right, size) ==
    IF ~(left < right) THEN [tag |-> "Err", i |-> left]
    ELSE LET mid == left + (size \div 2)
             cmp == PartialCmp(s[mid + 1], x)
         IN  IF cmp = "None" THEN [tag |-> "Panic", i |-> mid]
             ELSE IF cmp = "Less"
                  THEN BinarySearchEarlyReturn(s, x, mid + 1, right, right - (mid + 1))
             ELSE IF cmp = "Greater"
                  THEN BinarySearchEarlyReturn(s, x, left, mid, mid - left)
             ELSE [tag |-> "Ok", i |-> mid]

\* slice::binary_search_by as shipped by Rust up to 1.51 and from 1.82 on:
\* the branchless loop, which ends on the last element comparing Equal.
RECURSIVE BinarySearchBranchless(_, _, _, _)
BinarySearchBranchless(s, x, base, size) ==
    IF size = 0 THEN [tag |-> "Err", i |-> 0]
    ELSE IF size > 1
    THEN LET half == size \div 2
             mid == base + half
             cmp == PartialCmp(s[mid + 1], x)
         IN  IF cmp = "None" THEN [tag |-> "Panic", i |-> mid]
             ELSE BinarySearchBranchless(s, x,
                      IF cmp = "Greater" THEN base ELSE mid, size - half)
    ELSE LET cmp == PartialCmp(s[base + 1], x)
         IN  IF cmp = "None" THEN [tag |-> "Panic", i |-> base]
             ELSE IF cmp = "Equal" THEN [tag |-> "Ok", i |-> base]
             ELSE [tag |-> "Err", i |-> base + (IF cmp = "Less" THEN 1 ELSE 0)]

\* self.range.binary_search_by(|p| p.partial_cmp(&x).unwrap()): which index
\* is returned among several matches is left open by the library, so the
\* build decides (impl).
BinarySearchBy(impl, s, x) ==
    IF impl = "early_return"
    THEN BinarySearchEarlyReturn(s, x, 0, Len(s), Len(s))
    ELSE BinarySearchBranchless(s, x, 0, Len(s))

ZeroBins == [i \in 1..LEN |-> 0]
NoHist == [range |-> <<>>, bin |-> <<>>]

WithConstWidth(start, end) ==
    LET step == FDiv(FSub(end, start), R(LEN))
    IN  [range |-> [i \in 1..(LEN + 1) |-> FAdd(start, FMul(step, R(i - 1)))],
         bin |-> ZeroBins]

\* the loop of from_ranges; i is the 0-based index of the next element
RECURSIVE FromRangesLoop(_, _, _, _)
FromRangesLoop(ranges, i, range, last_i) ==
    IF i >= Len(ranges) \/ i > LEN
    THEN IF last_i # LEN
         THEN [tag |-> "NotEnoughRanges", h |-> NoHist]
         ELSE [tag |-> "Ok", h |-> [range |-> range, bin |-> ZeroBins]]
    ELSE LET r == ranges[i + 1]
         IN  IF IsNaN(r) THEN [tag |-> "NaN", h |-> NoHist]
             ELSE IF i > 0 /\ FGt(range[i], r)
                  THEN [tag |-> "NotSorted", h |-> NoHist]
             ELSE FromRangesLoop(ranges, i + 1, [range EXCEPT ![i + 1] = r], i)

\* from_ranges with last_i starting at LEN instead of 0
FromRangesLastIAtLen(ranges) ==
    FromRangesLoop(ranges, 0, [i \in 1..(LEN + 1) |-> R(0)], LEN)

FromRanges(ranges) ==
    FromRangesLoop(ranges, 0, [i \in 1..(LEN + 1) |-> R(0)], 0)

Find(impl, h, x) ==
    LET r == BinarySearchBy(impl, h.range, x)
    IN  IF r.tag = "Panic" THEN [tag |-> "Panic", i |-> 0]
        ELSE IF r.tag = "Ok" /\ r.i < LEN THEN [tag |-> "Ok", i |-> r.i]
        ELSE IF r.tag = "Err" /\ r.i > 0 /\ r.i < LEN + 1
             THEN [tag |-> "Ok", i |-> r.i - 1]
        ELSE [tag |-> "Err", i |-> 0]

\* Histogram::add: the histogram afterwards and the result
Add(impl, h, x) ==
    LET f == Find(impl, h, x)
    IN  IF f.tag = "Ok"
        THEN [tag |-> "Ok", h |-> [h EXCEPT !.bin[f.i + 1] = @ + 1]]
        ELSE [tag |-> f.tag, h |-> h]

\* reset that clears the first bin only
ResetFirstBin(h) == [h EXCEPT !.bin[1] = 0]

Reset(h) == [h EXCEPT !.bin = ZeroBins]

RangesEqual(a, b) == \A i \in 1..(LEN + 1) : FEq(a.range[i], b.range[i])

\* AddAssign<&Self>::add_assign: panics on the first differing range
AddAssign(self, other) ==
    IF ~RangesEqual(self, other) THEN [tag |-> "Panic", h |-> self]
    ELSE [tag |-> "Ok",
          h |-> [self EXCEPT !.bin = [i \in 1..LEN |-> self.bin[i] + other.bin[i]]]]

\* merge without the comparison of the ranges
HistMergeUnchecked(self, other) ==
    [tag |-> "Ok",
     h |-> [self EXCEPT !.bin = [i \in 1..LEN |-> self.bin[i] + other.bin[i]]]]

\* Merge::merge
HistMerge(self, other) ==
    IF Len(self.bin) # Len(other.bin) THEN [tag |-> "Panic", h |-> self]
    ELSE IF ~RangesEqual(self, other) THEN [tag |-> "Panic", h |-> self]
    ELSE [tag |-> "Ok",
          h |-> [self EXCEPT !.bin = [i \in 1..LEN |-> self.bin[i] + other.bin[i]]]]

\* MulAssign<u64>::mul_assign
MulAssign(self, factor) ==
    [self EXCEPT !.bin = [i \in 1..LEN |-> self.bin[i] * factor]]

(***************************************************************************)
(* Inputs of the histogram specifications.                                 *)
(***************************************************************************)
SearchImpls == {"early_return", "branchless"}
EdgeVals == {NegInf, R(0), R(1), Inf, NaN}
WidthVals == {R(0), R(2), NaN}
HSampleVals == {R(0), R(1), R(2), NaN}
FactorVals == {0, 2}

RECURSIVE SeqsUpTo(_, _)
SeqsUpTo(S, n) ==
    IF n = 0 THEN {<<>>}
    ELSE LET shorter == SeqsUpTo(S, n - 1)
         IN  shorter \cup {Append(s, v) : s \in {t \in shorter : Len(t) = n - 1}, v \in S}

\* iterators handed to from_ranges: up to one element more than it reads
RangeInputs == SeqsUpTo(EdgeVals, LEN + 2)

\* the histograms from_ranges returns for edges drawn from HistEdgeVals
HistEdgeVals == {R(0), R(1)}
BuiltByFromRanges ==
    {FromRanges(r).h : r \in {q \in SeqsUpTo(HistEdgeVals, LEN + 1) : FromRanges(q).tag = "Ok"}}

\* the histograms with_const_width returns
BuiltByWithConstWidth == {WithConstWidth(s, e) : s \in WidthVals, e \in WidthVals}

Constructible == BuiltByFromRanges \cup BuiltByWithConstWidth

EmptyBag == [x \in HSampleVals |-> 0]
NoCall == [op |-> "none", k |-> 0, arg |-> <<>>, out |-> "Ok", before |-> NoHist]

RECURSIVE SumSeq(_)
SumSeq(s) == IF s = <<>> THEN 0 ELSE Last(s) + SumSeq(Front(s))

TotalCount(hs) == SumSeq(hs[1].bin) + SumSeq(hs[2].bin)

(***************************************************************************)
(* SpecHistNew: one call of a constructor.                                 *)
(***************************************************************************)
InitHistNew ==
    /\ ParIdle
    /\ CovIdle
    /\ DistinctIdle
    /\ MinMaxIdle
    /\ MomentsIdle
    /\ WeightedIdle
    /\ QuantIdle
    /\ searchImpl \in SearchImpls
    /\ hist = [k \in HSlots |-> NoHist]
    /\ hseen = [k \in HSlots |-> EmptyBag]
    /\ hres = NoCall

\* let h = Histogram::from_ranges(ranges)
NewFromRanges(ranges) ==
    /\ hres.op = "none"
    /\ LET r == FromRanges(ranges)
       IN  /\ hist' = [hist EXCEPT ![1] = r.h]
           /\ hres' = [op |-> "from_ranges", k |-> 1, arg |-> ranges,
                       out |-> r.tag, before |-> NoHist]
    /\ UNCHANGED <<searchImpl, hseen, momentsVars, weightedVars, quantVars, minmaxVars, distinctVars, covVars, parVars>>

\* let h = Histogram::with_const_width(start, end)
NewWithConstWidth(start, end) ==
    /\ hres.op = "none"
    /\ hist' = [hist EXCEPT ![1] = WithConstWidth(start, end)]
    /\ hres' = [op |-> "with_const_width", k |-> 1, arg |-> <<start, end>>,
                out |-> "Ok", before |-> NoHist]
    /\ UNCHANGED <<searchImpl, hseen, momentsVars, weightedVars, quantVars, minmaxVars, distinctVars, covVars, parVars>>

NextHistNew ==
    \/ \E ranges \in RangeInputs : NewFromRanges(ranges)
    \/ \E start \in WidthVals, end \in WidthVals : NewWithConstWidth(start, end)

SpecHistNew == InitHistNew /\ [][NextHistNew]_vars

(***************************************************************************)
(* SpecHist: two constructed histograms and the calls made on them.  A     *)
(* panic ends the run.                                                     *)
(***************************************************************************)
InitHist ==
    /\ ParIdle
    /\ CovIdle
    /\ DistinctIdle
    /\ MinMaxIdle
    /\ MomentsIdle
    /\ WeightedIdle
    /\ QuantIdle
    /\ searchImpl \in SearchImpls
    /\ hist \in [HSlots -> Constructible]
    /\ hseen = [k \in HSlots |-> EmptyBag]
    /\ hres = NoCall

\* h.add(x)
HistAddCall(k, x) ==
    /\ hres.out # "Panic"
    /\ LET r == Add(searchImpl, hist[k], x)
       IN  /\ TotalCount([hist EXCEPT ![k] = r.h]) <= MaxHCount
           /\ hist' = [hist EXCEPT ![k] = r.h]
           /\ hseen' = IF r.tag = "Ok"
                       THEN [hseen EXCEPT ![k][x] = @ + 1]
                       ELSE hseen
           /\ hres' = [op |-> "add", k |-> k, arg |-> x, out |-> r.tag,
                       before |-> hist[k]]
    /\ UNCHANGED <<searchImpl, momentsVars, weightedVars, quantVars, minmaxVars, distinctVars, covVars, parVars>>

\* h.reset()
HistResetCall(k) ==
    /\ hres.out # "Panic"
    /\ hist' = [hist EXCEPT ![k] = Reset(@)]
    /\ hseen' = [hseen EXCEPT ![k] = EmptyBag]
    /\ hres' = [op |-> "reset", k |-> k, arg |-> <<>>, out |-> "Ok",
                before |-> hist[k]]
    /\ UNCHANGED <<searchImpl, momentsVars, weightedVars, quantVars, minmaxVars, distinctVars, covVars, parVars>>

\* the effect shared by h.merge(&other) and h += &other
HistCombine(k, j, r, op) ==
    /\ TotalCount([hist EXCEPT ![k] = r.h]) <= MaxHCount
    /\ hist' = [hist EXCEPT ![k] = r.h]
    /\ hseen' = IF r.tag = "Ok"
                THEN [hseen EXCEPT ![k] = [x \in HSampleVals |-> @[x] + hseen[j][x]]]
                ELSE hseen
    /\ hres' = [op |-> op, k |-> k, arg |-> j, out |-> r.tag, before |-> hist[k]]
    /\ UNCHANGED <<searchImpl, momentsVars, weightedVars, quantVars, minmaxVars, distinctVars, covVars, parVars>>

\* h.merge(&other)
HistMergeCall(k, j) ==
    /\ hres.out # "Panic"
    /\ k # j
    /\ HistCombine(k, j, HistMerge(hist[k], hist[j]), "merge")

\* h += &other
HistAddAssignCall(k, j) ==
    /\ hres.out # "Panic"
    /\ k # j
    /\ HistCombine(k, j, AddAssign(hist[k], hist[j]), "add_assign")

\* h *= factor
HistMulAssignCall(k, factor) ==
    /\ hres.out # "Panic"
    /\ TotalCount([hist EXCEPT ![k] = MulAssign(@, factor)]) <= MaxHCount
    /\ hist' = [hist EXCEPT ![k] = MulAssign(@, factor)]
    /\ hseen' = [hseen EXCEPT ![k] = [x \in HSampleVals |-> @[x] * factor]]
    /\ hres' = [op |-> "mul_assign", k |-> k, arg |-> factor, out |-> "Ok",
                before |-> hist[k]]
    /\ UNCHANGED <<searchImpl, momentsVars, weightedVars, quantVars, minmaxVars, distinctVars, covVars, parVars>>

NextHist ==
    \/ \E k \in HSlots, x \in HSampleVals : HistAddCall(k, x)
    \/ \E k \in HSlots : HistResetCall(k)
    \/ \E k \in HSlots, j \in HSlots : HistMergeCall(k, j)
    \/ \E k \in HSlots, j \in HSlots : HistAddAssignCall(k, j)
    \/ \E k \in HSlots, factor \in FactorVals : HistMulAssignCall(k, factor)

SpecHist == InitHist /\ [][NextHist]_vars

(***************************************************************************)
(* Claims about the histogram.                                             *)
(***************************************************************************)
\* edges as the documentation requires them: no NaN, never decreasing
ValidRanges(range) ==
    /\ \A i \in 1..Len(range) : ~IsNaN(range[i])
    /\ \A i \in 1..(Len(range) - 1) : FLe(range[i], range[i + 1])

\* h has edges with which from_ranges returns a histogram
FromRangesReturns(h) == FromRanges(h.range).tag = "Ok"

\* the bins whose counter differs between two values of a histogram
ChangedBins(a, b) == {i \in 1..LEN : a.bin[i] # b.bin[i]}

\* C4: for a histogram built by from_ranges, add(x) returns Err exactly when
\* x is below the first edge or at or above the last edge; on Err nothing
\* changes, on Ok exactly one counter grows by one and nothing else changes.
C4_AddErrIffOutOfRange ==
    (hres.op = "add" /\ FromRangesReturns(hres.before)) =>
        LET h == hres.before
            x == hres.arg
            after == hist[hres.k]
            outside == FLt(x, h.range[1]) \/ FGe(x, h.range[LEN + 1])
        IN  /\ hres.out \in {"Ok", "Err"}
            /\ (hres.out = "Err") <=> outside
            /\ hres.out = "Err" => after = h
            /\ hres.out = "Ok" =>
                   /\ after.range = h.range
                   /\ \E i \in 1..LEN :
                          /\ ChangedBins(h, after) = {i}
                          /\ after.bin[i] = h.bin[i] + 1

\* C5: with sorted edges an accepted sample x is counted in a bin i with
\* edge[i] <= x < edge[i+1], so a bin with edge[i] = edge[i+1] stays at zero
\* whatever is added.
C5_CountedInItsBin ==
    /\ (hres.op = "add" /\ hres.out = "Ok" /\ ValidRanges(hres.before.range)) =>
           \A i \in ChangedBins(hres.before, hist[hres.k]) :
               /\ FLe(hres.before.range[i], hres.arg)
               /\ FLt(hres.arg, hres.before.range[i + 1])
    /\ \A k \in HSlots :
           ValidRanges(hist[k].range) =>
               \A i \in 1..LEN :
                   FEq(hist[k].range[i], hist[k].range[i + 1]) => hist[k].bin[i] = 0

\* the first of the edges from_ranges reads that is NaN or below its predecessor
FirstBadEdge(a) ==
    LET m == IF Len(a) < LEN + 1 THEN Len(a) ELSE LEN + 1
        bad == {i \in 1..m : IsNaN(a[i]) \/ (i > 1 /\ FLt(a[i], a[i - 1]))}
    IN  IF bad = {} THEN 0 ELSE CHOOSE i \in bad : \A j \in bad : i <= j

\* C6: from_ranges fails with NaN or NotSorted for the first edge among the
\* first N+1 that is NaN or smaller than its predecessor, with NotEnoughRanges
\* when there is none but fewer than N+1 edges were given, and otherwise
\* returns the first N+1 values as edges with all counters zero.
C6_FromRangesErrors ==
    hres.op = "from_ranges" =>
        LET a == hres.arg
            b == FirstBadEdge(a)
        IN  IF b # 0
            THEN /\ hres.out = (IF IsNaN(a[b]) THEN "NaN" ELSE "NotSorted")
                 /\ hist[1] = NoHist
            ELSE IF Len(a) < LEN + 1
            THEN /\ hres.out = "NotEnoughRanges"
                 /\ hist[1] = NoHist
            ELSE /\ hres.out = "Ok"
                 /\ hist[1].range = SubSeq(a, 1, LEN + 1)
                 /\ \A i \in 1..LEN : hist[1].bin[i] = 0
                 /\ Len(hist[1].bin) = LEN

\* an accepted list with equal neighbours, an infinite edge and a NaN behind
\* the last edge read
C6_Witness ==
    /\ hres.op = "from_ranges"
    /\ hres.out = "Ok"
    /\ Len(hres.arg) = LEN + 2
    /\ IsNaN(hres.arg[LEN + 2])
    /\ FEq(hres.arg[1], hres.arg[2])
    /\ hres.arg[LEN + 1] = Inf
    /\ hist[1].range = SubSeq(hres.arg, 1, LEN + 1)

\* C7: every histogram a public constructor returns (with_const_width for
\* any start and end, from_ranges) has non-decreasing NaN-free edges.
C7_ConstructedEdgesValid ==
    (hres.op \in {"from_ranges", "with_const_width"} /\ hres.out = "Ok") =>
        ValidRanges(hist[1].range)

\* how many samples of bag, drawn from S, a histogram with the edges of h
\* counts in bin i
RECURSIVE CountIn(_, _, _, _, _)
CountIn(impl, h, bag, i, S) ==
    IF S = {} THEN 0
    ELSE LET x == CHOOSE v \in S : TRUE
             f == Find(impl, h, x)
         IN  (IF bag[x] > 0 /\ f.tag = "Ok" /\ f.i + 1 = i THEN bag[x] ELSE 0)
                 + CountIn(impl, h, bag, i, S \ {x})

\* the counters one histogram with the edges of h has after the samples of bag
CountsOf(impl, h, bag) == [i \in 1..LEN |-> CountIn(impl, h, bag, i, HSampleVals)]

\* C8: merge and += panic when an edge differs and leave self as it was;
\* with equal edges every counter becomes the sum of the two counters.  So a
\* histogram holds the counters of one histogram that received all samples
\* of the batches merged into it, whichever way round they are merged.
C8_MergeSumsOrPanics ==
    /\ hres.op \in {"merge", "add_assign"} =>
           LET a == hres.before
               b == hist[hres.arg]
               after == hist[hres.k]
               differ == \E i \in 1..(LEN + 1) :
                             a.range[i] # b.range[i] \/ IsNaN(a.range[i])
           IN  IF differ
               THEN hres.out = "Panic" /\ after = a
               ELSE /\ hres.out = "Ok"
                    /\ after.range = a.range
                    /\ \A i \in 1..LEN : after.bin[i] = a.bin[i] + b.bin[i]
    /\ \A k \in HSlots : hist[k].bin = CountsOf(searchImpl, hist[k], hseen[k])
    /\ \A k \in HSlots, j \in HSlots :
           HistMerge(hist[k], hist[j]).tag = "Ok" =>
               /\ HistMerge(hist[j], hist[k]).tag = "Ok"
               /\ HistMerge(hist[k], hist[j]).h.bin = HistMerge(hist[j], hist[k]).h.bin

\* a merge of two histograms that both hold samples, into different bins
C8_Witness ==
    /\ hres.op = "merge"
    /\ hres.out = "Ok"
    /\ SumSeq(hres.before.bin) > 0
    /\ SumSeq(hist[hres.arg].bin) > 0
    /\ hres.before.bin # hist[hres.arg].bin
    /\ SumSeq(hist[hres.k].bin) = SumSeq(hres.before.bin) + SumSeq(hist[hres.arg].bin)

\* C9: reset sets every counter to zero and leaves the edges alone; the
\* histogram is then the one its constructor returned and answers add alike.
C9_ResetZeroesBins ==
    hres.op = "reset" =>
        LET after == hist[hres.k]
        IN  /\ \A i \in 1..LEN : after.bin[i] = 0
            /\ after.range = hres.before.range
            /\ after \in Constructible
            /\ \A x \in HSampleVals :
                   Add(searchImpl, after, x)
                       = Add(searchImpl, [range |-> hres.before.range, bin |-> ZeroBins], x)

\* a reset of a histogram with samples in more than one bin
C9_Witness ==
    /\ hres.op = "reset"
    /\ Cardinality({i \in 1..LEN : hres.before.bin[i] > 0}) > 1
    /\ SumSeq(hist[hres.k].bin) = 0

(***************************************************************************)
(* Quantile (src/src/quantile.rs).  The arrays q, n, m, dm are 0-based in  *)
(* the source and 1-based here: q[i] of the source is q[i + 1].            *)
(***************************************************************************)
MaxQLen == 6           \* number of samples added to the estimator

Half == Norm(1, 2)

\* f64::ceil
FCeil(a) == IF a[2] = 0 THEN a ELSE R(-((-a[1]) \div a[2]))

\* usize::conv_nearest / i64::conv_nearest of a finite value that is integral
ConvNearest(a) == a[1] \div a[2]

\* float_ord::sort on values without NaN: ascending insertion
InsertSorted(s, x) ==
    LET before == {i \in 1..Len(s) : FLt(x, s[i])}
        pos == IF before = {} THEN Len(s) + 1 ELSE CHOOSE i \in before : \A j \in before : i <= j
    IN  SubSeq(s, 1, pos - 1) \o <<x>> \o SubSeq(s, pos, Len(s))

RECURSIVE SortFloats(_)
SortFloats(s) == IF s = <<>> THEN <<>> ELSE InsertSorted(SortFloats(Front(s)), Last(s))

NoQuantile == [q |-> <<>>, n |-> <<>>, m |-> <<>>, dm |-> <<>>]

\* a range check written with < and >, which NaN passes
QuantileNewPanicsOrdered(p) == FLt(p, R(0)) \/ FGt(p, R(1))

\* assert!((0. ..=1.).contains(&p))
QuantileNewPanics(p) == ~(FLe(R(0), p) /\ FLe(p, R(1)))

QuantileNew(p) ==
    [q  |-> <<R(0), R(0), R(0), R(0), R(0)>>,
     n  |-> <<1, 2, 3, 4, 0>>,
     m  |-> <<R(1), FAdd(R(1), FMul(R(2), p)), FAdd(R(1), FMul(R(4), p)),
              FAdd(R(3), FMul(R(2), p)), R(5)>>,
     dm |-> <<R(0), FDiv(p, R(2)), p, FDiv(FAdd(R(1), p), R(2)), R(1)>>]

QuantileP(self) == self.dm[3]
QuantileLen(self) == self.n[5]
QuantileIsEmpty(self) == QuantileLen(self) = 0

\* parabolic(i, d) with i the source's 0-based index and d = R(s), s = 1 or -1
Parabolic(self, i, s) ==
    LET q == self.q
        n == self.n
        d == R(s)
    IN  FAdd(q[i + 1],
             FMul(FDiv(d, R(n[i + 2] - n[i])),
                  FAdd(FDiv(FMul(R(n[i + 1] - n[i] + s), FSub(q[i + 2], q[i + 1])),
                            R(n[i + 2] - n[i + 1])),
                       FDiv(FMul(R(n[i + 2] - n[i + 1] - s), FSub(q[i + 1], q[i])),
                            R(n[i + 1] - n[i])))))

\* linear(i, d)
Linear(self, i, s) ==
    LET q == self.q
        n == self.n
        sum == IF s < 0 THEN i - 1 ELSE i + 1
    IN  FAdd(q[i + 1],
             FDiv(FMul(R(s), FSub(q[sum + 1], q[i + 1])), R(n[sum + 1] - n[i + 1])))

\* Quantile::quantile.  The source sorts a local copy (heights) of the
\* first len heights and then reads the heights of self.
QuantileQuantile(self) ==
    IF QuantileLen(self) >= 5 THEN self.q[3]
    ELSE IF QuantileIsEmpty(self) THEN NaN
    ELSE LET len == QuantileLen(self)
             heights == SortFloats(SubSeq(self.q, 1, len))
             desired_index == FSub(FMul(R(len), QuantileP(self)), R(1))
             index == FCeil(desired_index)
         IN  IF /\ FEq(desired_index, index)
                /\ FGe(index, R(0))
                /\ ConvNearest(index) < len - 1
             THEN FAdd(FMul(Half, self.q[ConvNearest(index) + 1]),
                       FMul(Half, self.q[ConvNearest(index) + 2]))
             ELSE LET clamped == ConvNearest(FMax(index, R(0)))
                      i == IF clamped < len - 1 THEN clamped ELSE len - 1
                  IN  self.q[i + 1]

\* add, "Find cell k": the cell (0-based) and the heights afterwards
FindCell(self, x) ==
    IF FLt(x, self.q[1])
    THEN [k |-> 0, q |-> [self.q EXCEPT ![1] = x]]
    ELSE LET below == {i \in 1..4 : FLt(x, self.q[i + 1])}
         IN  [k |-> IF below = {} THEN 4 ELSE CHOOSE i \in below : \A j \in below : i <= j,
              q |-> IF FLt(self.q[5], x) THEN [self.q EXCEPT ![5] = x] ELSE self.q]

\* add, "Increment all positions greater than k" and the desired positions
MoveMarkers(self, x) ==
    LET c == FindCell(self, x)
    IN  [self EXCEPT
            !.q = c.q,
            !.n = [i \in 1..5 |-> IF i - 1 >= c.k THEN self.n[i] + 1 ELSE self.n[i]],
            !.m = [i \in 1..5 |-> FAdd(self.m[i], self.dm[i])]]

\* add, the condition under which the 0-based marker i is adjusted
AdjustTaken(self, i) ==
    LET d == FSub(self.m[i + 1], R(self.n[i + 1]))
    IN  \/ FGe(d, R(1)) /\ self.n[i + 2] - self.n[i + 1] > 1
        \/ FLe(d, R(-1)) /\ self.n[i] - self.n[i + 1] < -1

\* adjustment that takes the parabolic height without looking at the
\* neighbouring heights
AdjustMarkerAlwaysParabolic(self, i) ==
    LET d == FSub(self.m[i + 1], R(self.n[i + 1]))
    IN  IF AdjustTaken(self, i)
        THEN LET s == IF FGt(d, R(0)) THEN 1 ELSE -1
             IN  [self EXCEPT !.q[i + 1] = Parabolic(self, i, s), !.n[i + 1] = @ + s]
        ELSE self

\* adjustment that moves a marker whenever it is off by one or more
AdjustMarkerNoGapCheck(self, i) ==
    LET d == FSub(self.m[i + 1], R(self.n[i + 1]))
    IN  IF FGe(d, R(1)) \/ FLe(d, R(-1))
        THEN LET s == IF FGt(d, R(0)) THEN 1 ELSE -1
                 q_new == Parabolic(self, i, s)
                 h == IF FLt(self.q[i], q_new) /\ FLt(q_new, self.q[i + 2])
                      THEN q_new
                      ELSE Linear(self, i, s)
             IN  [self EXCEPT !.q[i + 1] = h, !.n[i + 1] = @ + s]
        ELSE self

\* add, one round of "Adjust height of markers" for the 0-based marker i
AdjustMarker(self, i) ==
    LET d == FSub(self.m[i + 1], R(self.n[i + 1]))
    IN  IF AdjustTaken(self, i)
        THEN LET s == IF FGt(d, R(0)) THEN 1 ELSE -1
                 q_new == Parabolic(self, i, s)
                 h == IF FLt(self.q[i], q_new) /\ FLt(q_new, self.q[i + 2])
                      THEN q_new
                      ELSE Linear(self, i, s)
             IN  [self EXCEPT !.q[i + 1] = h, !.n[i + 1] = @ + s]
        ELSE self

\* Estimate::add
QuantileAdd(self, x) ==
    IF self.n[5] < 5
    THEN LET q1 == [self.q EXCEPT ![self.n[5] + 1] = x]
             n1 == [self.n EXCEPT ![5] = @ + 1]
         IN  [self EXCEPT !.q = IF n1[5] = 5 THEN SortFloats(q1) ELSE q1, !.n = n1]
    ELSE AdjustMarker(AdjustMarker(AdjustMarker(MoveMarkers(self, x), 1), 2), 3)

(***************************************************************************)
(* SpecQuantile: one estimator, created by new(p) and fed samples.         *)
(***************************************************************************)
PVals == {Norm(-1, 4), R(0), Norm(1, 4), Norm(1, 2), R(1), R(2), NaN}
QSampleVals == {R(0), R(1), R(2), R(3)}

InitQuantile ==
    /\ ParIdle
    /\ CovIdle
    /\ DistinctIdle
    /\ MinMaxIdle
    /\ MomentsIdle
    /\ WeightedIdle
    /\ HistIdle
    /\ quant = NoQuantile
    /\ qsamples = <<>>
    /\ qres = [op |-> "none", arg |-> R(0), out |-> "Ok", p |-> R(0)]

\* let mut quant = Quantile::new(p)
QuantNewCall(p) ==
    /\ qres.op = "none"
    /\ quant' = IF QuantileNewPanics(p) THEN quant ELSE QuantileNew(p)
    /\ qres' = [op |-> "new", arg |-> p,
                out |-> IF QuantileNewPanics(p) THEN "Panic" ELSE "Ok", p |-> p]
    /\ UNCHANGED <<qsamples, momentsVars, weightedVars, histVars, minmaxVars, distinctVars, covVars, parVars>>

\* quant.add(x)
QuantAddCall(x) ==
    /\ qres.op # "none"
    /\ qres.out # "Panic"
    /\ Len(qsamples) < MaxQLen
    /\ quant' = QuantileAdd(quant, x)
    /\ qsamples' = Append(qsamples, x)
    /\ qres' = [op |-> "add", arg |-> x, out |-> "Ok", p |-> qres.p]
    /\ UNCHANGED <<momentsVars, weightedVars, histVars, minmaxVars, distinctVars, covVars, parVars>>

NextQuantile ==
    \/ \E p \in PVals : QuantNewCall(p)
    \/ \E x \in QSampleVals : QuantAddCall(x)

SpecQuantile == InitQuantile /\ [][NextQuantile]_vars

\* the value the documentation of quantile() describes for 1 to 4 samples:
\* taken from the samples in ascending order
QuantileOfSorted(xs, p) ==
    LET len == Len(xs)
        sorted == SortFloats(xs)
        desired_index == FSub(FMul(R(len), p), R(1))
        index == FCeil(desired_index)
    IN  IF FEq(desired_index, index) /\ FGe(index, R(0)) /\ ConvNearest(index) < len - 1
        THEN FMul(Half, FAdd(sorted[ConvNearest(index) + 1], sorted[ConvNearest(index) + 2]))
        ELSE LET clamped == IF FLt(index, R(0)) THEN 0 ELSE ConvNearest(index)
                 i == IF clamped > len - 1 THEN len - 1 ELSE clamped
             IN  sorted[i + 1]

\* C10: holding 1 to 4 samples, quantile() returns the value computed from
\* the samples in sorted order (nearest rank, averaged at exact positions),
\* so it depends on the multiset of the samples only.
C10_FewSamplesSorted ==
    (quant # NoQuantile /\ Len(qsamples) \in 1..4) =>
        QuantileQuantile(quant) = QuantileOfSorted(qsamples, QuantileP(quant))

(***************************************************************************)
(* Claims about the marker positions of Quantile.                          *)
(***************************************************************************)
\* the differences of positions that parabolic and linear divide by when
\* the 0-based marker i of self is adjusted
DenominatorsNonZero(self, i) ==
    AdjustTaken(self, i) =>
        /\ self.n[i + 2] - self.n[i] # 0
        /\ self.n[i + 2] - self.n[i + 1] # 0
        /\ self.n[i + 1] - self.n[i] # 0

\* C11: with five or more samples the marker positions are strictly
\* increasing after every add, and no adjustment of the next add divides by
\* a zero difference of positions.
C11_PositionsIncreasing ==
    (quant # NoQuantile /\ QuantileLen(quant) >= 5) =>
        /\ \A i \in 1..4 : quant.n[i] < quant.n[i + 1]
        /\ \A x \in QSampleVals :
               LET s1 == MoveMarkers(quant, x)
                   s2 == AdjustMarker(s1, 1)
                   s3 == AdjustMarker(s2, 2)
               IN  /\ DenominatorsNonZero(s1, 1)
                   /\ DenominatorsNonZero(s2, 2)
                   /\ DenominatorsNonZero(s3, 3)

\* an add beyond the fifth that adjusted a marker: its height is no sample
C11_Witness ==
    /\ quant # NoQuantile
    /\ Len(qsamples) >= 6
    /\ quant.n[5] = Len(qsamples)
    /\ \E i \in 2..4 : \A j \in 1..Len(qsamples) : quant.q[i] # qsamples[j]

\* C12: new(p) panics for every p outside [0, 1], NaN included, and returns
\* for every other p an empty estimator whose p() is p; p() returns the
\* same value after any adds.
C12_NewChecksP ==
    /\ qres.op = "new" =>
           IF ~IsNaN(qres.arg) /\ qres.arg[2] # 0
                  /\ 0 <= qres.arg[1] /\ qres.arg[1] <= qres.arg[2]
           THEN /\ qres.out = "Ok"
                /\ QuantileLen(quant) = 0
                /\ QuantileP(quant) = qres.arg
           ELSE /\ qres.out = "Panic"
                /\ quant = NoQuantile
    /\ quant # NoQuantile => QuantileP(quant) = qres.p

\* markers adjusted by adds beyond the fifth, p() still the argument of new
C12_Witness ==
    /\ C11_Witness
    /\ qres.op = "add"
    /\ qres.p = Norm(1, 4)
    /\ QuantileP(quant) = Norm(1, 4)

(***************************************************************************)
(* SpecExtremes: the moments chain fed with samples from the whole finite  *)
(* range of the floats.                                                    *)
(***************************************************************************)
ExtremeVals == {R(-F64Max), R(0), R(1), R(F64Max)}

NextExtremes ==
    \/ \E i \in Slots, x \in ExtremeVals : MomentsAdd(i, x)
    \/ \E i \in Slots, j \in Slots : MomentsMerge(i, j)

SpecExtremes == InitMoments /\ [][NextExtremes]_vars

(***************************************************************************)
(* Claims about the NaN sentinel of the queries.                           *)
(***************************************************************************)
\* C13: for finite samples mean() and population_variance() return NaN
\* exactly when the count is 0, sample_variance() exactly when the count is
\* below 2, and quantile() exactly when no sample was added.
C13_NaNIffTooSmall ==
    /\ \A i \in Slots :
           /\ IsNaN(MeanMean(mean[i])) <=> MeanLen(mean[i]) = 0
           /\ IsNaN(VarianceMean(variance[i])) <=> VarianceLen(variance[i]) = 0
           /\ IsNaN(PopulationVariance(variance[i])) <=> VarianceLen(variance[i]) = 0
           /\ IsNaN(SampleVariance(variance[i])) <=> VarianceLen(variance[i]) < 2
    /\ quant # NoQuantile =>
           (IsNaN(QuantileQuantile(quant)) <=> QuantileLen(quant) = 0)

MinMaxVals == {NegInf, R(-1), R(2), NaN}

InitMinMax ==
    /\ ParIdle
    /\ CovIdle
    /\ DistinctIdle
    /\ MomentsIdle
    /\ WeightedIdle
    /\ HistIdle
    /\ QuantIdle
    /\ MinMaxIdle

\* min.add(x); max.add(x)
MinMaxAdd(i, x) ==
    /\ minEst' = [minEst EXCEPT ![i] = MinAdd(@, x)]
    /\ maxEst' = [maxEst EXCEPT ![i] = MaxAdd(@, x)]
    /\ msamples' = [msamples EXCEPT ![i] = @ \cup {x}]
    /\ mLastOp' = [op |-> "add", dst |-> i, src |-> i]
    /\ UNCHANGED <<momentsVars, weightedVars, histVars, quantVars, distinctVars, covVars, parVars>>

\* min_i.merge(&min_j); max_i.merge(&max_j)
MinMaxMerge(i, j) ==
    /\ minEst' = [minEst EXCEPT ![i] = MinMerge(@, minEst[j])]
    /\ maxEst' = [maxEst EXCEPT ![i] = MaxMerge(@, maxEst[j])]
    /\ msamples' = [msamples EXCEPT ![i] = @ \cup msamples[j]]
    /\ mLastOp' = [op |-> "merge", dst |-> i, src |-> j]
    /\ UNCHANGED <<momentsVars, weightedVars, histVars, quantVars, distinctVars, covVars, parVars>>

NextMinMax ==
    \/ \E i \in Slots, x \in MinMaxVals : MinMaxAdd(i, x)
    \/ \E i \in Slots, j \in Slots : MinMaxMerge(i, j)

SpecMinMax == InitMinMax /\ [][NextMinMax]_vars

\* the least and the greatest of the samples of S that are numbers; the
\* value of a new estimator when there is none
LeastOf(S) ==
    LET nums == {x \in S : ~IsNaN(x)}
    IN  IF nums = {} THEN Inf ELSE CHOOSE x \in nums : \A y \in nums : FLe(x, y)

GreatestOf(S) ==
    LET nums == {x \in S : ~IsNaN(x)}
    IN  IF nums = {} THEN NegInf ELSE CHOOSE x \in nums : \A y \in nums : FGe(x, y)

\* C15: a new Min reports +infinity and a new Max -infinity; after any adds
\* and merges min() (max()) is the minimum (maximum) of all samples added to
\* the estimator or to one merged into it; merge(other) acts as add(other's
\* value) and is commutative, associative and idempotent.
C15_MinMaxExact ==
    /\ MinMin(MinNew) = Inf
    /\ MaxMax(MaxNew) = NegInf
    /\ \A i \in Slots :
           /\ MinMin(minEst[i]) = LeastOf(msamples[i])
           /\ MaxMax(maxEst[i]) = GreatestOf(msamples[i])
    /\ \A i \in Slots, j \in Slots :
           /\ MinMerge(minEst[i], minEst[j]) = MinAdd(minEst[i], MinMin(minEst[j]))
           /\ MaxMerge(maxEst[i], maxEst[j]) = MaxAdd(maxEst[i], MaxMax(maxEst[j]))
           /\ MinMerge(minEst[i], minEst[j]) = MinMerge(minEst[j], minEst[i])
           /\ MaxMerge(maxEst[i], maxEst[j]) = MaxMerge(maxEst[j], maxEst[i])
    /\ \A i \in Slots :
           /\ MinMerge(minEst[i], minEst[i]) = minEst[i]
           /\ MaxMerge(maxEst[i], maxEst[i]) = maxEst[i]
    /\ MinMerge(MinMerge(minEst[1], minEst[2]), minEst[3])
           = MinMerge(minEst[1], MinMerge(minEst[2], minEst[3]))
    /\ MaxMerge(MaxMerge(maxEst[1], maxEst[2]), maxEst[3])
           = MaxMerge(maxEst[1], MaxMerge(maxEst[2], maxEst[3]))

\* a merge of an estimator holding finite samples into another one that
\* lowers its minimum and raises its maximum
C15_Witness ==
    /\ mLastOp.op = "merge"
    /\ mLastOp.dst # mLastOp.src
    /\ MinMin(minEst[mLastOp.dst]) = R(-1)
    /\ MaxMax(maxEst[mLastOp.dst]) = R(2)
    /\ msamples[mLastOp.src] = {R(-1), R(2), NaN}
    /\ R(-1) \in msamples[mLastOp.dst]

(***************************************************************************)
(* SpecDistinct: one DistinctElements<N>, fed items with every key the     *)
(* random number generator can return (Standard samples [0, 1)).           *)
(***************************************************************************)
DItems == 1..(N + 1)
KeyVals == {R(0), Norm(1, 4), Norm(1, 2), Norm(3, 4)}

InitDistinct ==
    /\ ParIdle
    /\ CovIdle
    /\ DistinctIdle
    /\ MomentsIdle
    /\ WeightedIdle
    /\ HistIdle
    /\ QuantIdle
    /\ MinMaxIdle

\* distinct.add(a), the generator returning u
DistinctAddCall(a, u) ==
    /\ distinct' = DistinctAdd(distinct, a, u)
    /\ ditems' = ditems \cup {a}
    /\ dres' = [op |-> "add", a |-> a, u |-> u, repeated |-> a \in ditems]
    /\ UNCHANGED <<momentsVars, weightedVars, histVars, quantVars, minmaxVars, covVars, parVars>>

NextDistinct == \E a \in DItems, u \in KeyVals : DistinctAddCall(a, u)

SpecDistinct == InitDistinct /\ [][NextDistinct]_vars

\* C16: after any adds with keys from [0, 1) the buffer holds at most N
\* entries, 0 < sampling_rate <= 1, and estimate() is finite.
C16_RateInRange ==
    /\ Len(distinct.buffer) <= N
    /\ FLt(R(0), distinct.sampling_rate)
    /\ FLe(distinct.sampling_rate, R(1))
    /\ IsFinite(DistinctEstimate(distinct))

\* C17: while at most N distinct items have been added, whatever the keys
\* and the repetitions, the sampling rate is 1, every item added is in the
\* buffer exactly once, and estimate() is the number of distinct items.
C17_ExactUpToN ==
    Cardinality(ditems) <= N =>
        /\ distinct.sampling_rate = R(1)
        /\ Len(distinct.buffer) = Cardinality(ditems)
        /\ \A a \in ditems :
               Cardinality({i \in 1..Len(distinct.buffer) : distinct.buffer[i][1] = a}) = 1
        /\ DistinctEstimate(distinct) = R(Cardinality(ditems))

\* N distinct items have been added and the last add repeated one of them
C17_Witness ==
    /\ Cardinality(ditems) = N
    /\ dres.op = "add"
    /\ dres.repeated
    /\ Len(distinct.buffer) = N

(***************************************************************************)
(* Claims about the bounds of the mean.                                    *)
(***************************************************************************)
\* the smallest and the largest element of a non-empty sequence of numbers
SampleSet(s) == {s[k] : k \in 1..Len(s)}
SmallestSample(s) == CHOOSE x \in SampleSet(s) : \A y \in SampleSet(s) : FLe(x, y)
LargestSample(s) == CHOOSE x \in SampleSet(s) : \A y \in SampleSet(s) : FGe(x, y)

MaxPairs == 3
CoordVals == {R(0), R(1), R(3)}

InitCovariance ==
    /\ ParIdle
    /\ CovIdle
    /\ DistinctIdle
    /\ MomentsIdle
    /\ WeightedIdle
    /\ HistIdle
    /\ QuantIdle
    /\ MinMaxIdle

\* cov_i.add(x, y), its twin receiving add(y, x)
CovAdd(i, x, y) ==
    /\ Len(cpairs[1]) + Len(cpairs[2]) < MaxPairs
    /\ cov' = [cov EXCEPT ![i] = CovarianceAdd(@, x, y)]
    /\ covSwapped' = [covSwapped EXCEPT ![i] = CovarianceAdd(@, y, x)]
    /\ cpairs' = [cpairs EXCEPT ![i] = Append(@, <<x, y>>)]
    /\ cLastOp' = [op |-> "add", dst |-> i, src |-> i]
    /\ UNCHANGED <<momentsVars, weightedVars, histVars, quantVars, minmaxVars, distinctVars, parVars>>

\* cov_i.merge(&cov_j), and the same on the twins
CovMerge(i, j) ==
    /\ i # j
    /\ Len(cpairs[1]) + Len(cpairs[2]) + Len(cpairs[j]) <= MaxPairs
    /\ cov' = [cov EXCEPT ![i] = CovarianceMerge(@, cov[j])]
    /\ covSwapped' = [covSwapped EXCEPT ![i] = CovarianceMerge(@, covSwapped[j])]
    /\ cpairs' = [cpairs EXCEPT ![i] = @ \o cpairs[j]]
    /\ cLastOp' = [op |-> "merge", dst |-> i, src |-> j]
    /\ UNCHANGED <<momentsVars, weightedVars, histVars, quantVars, minmaxVars, distinctVars, parVars>>

NextCovariance ==
    \/ \E i \in CSlots, x \in CoordVals, y \in CoordVals : CovAdd(i, x, y)
    \/ \E i \in CSlots, j \in CSlots : CovMerge(i, j)

SpecCovariance == InitCovariance /\ [][NextCovariance]_vars

\* C19: the estimator fed the pairs (x, y) and the one fed the swapped pairs
\* (y, x) have the same count, population_covariance and sample_covariance,
\* and their means and variances of x and y are exchanged.
C19_CovarianceSymmetric ==
    \A i \in CSlots :
        /\ CovarianceLen(covSwapped[i]) = CovarianceLen(cov[i])
        /\ CovarianceLen(cov[i]) = Len(cpairs[i])
        /\ PopulationCovariance(covSwapped[i]) = PopulationCovariance(cov[i])
        /\ SampleCovariance(covSwapped[i]) = SampleCovariance(cov[i])
        /\ CovarianceMeanX(covSwapped[i]) = CovarianceMeanY(cov[i])
        /\ CovarianceMeanY(covSwapped[i]) = CovarianceMeanX(cov[i])
        /\ PopulationVarianceX(covSwapped[i]) = PopulationVarianceY(cov[i])
        /\ PopulationVarianceY(covSwapped[i]) = PopulationVarianceX(cov[i])
        /\ SampleVarianceX(covSwapped[i]) = SampleVarianceY(cov[i])
        /\ SampleVarianceY(covSwapped[i]) = SampleVarianceX(cov[i])

\* an add to an estimator of two pairs whose coordinates differ in mean and
\* in variance and whose covariance is not zero
C19_Witness ==
    /\ cLastOp.op = "add"
    /\ LET c == cov[cLastOp.dst]
       IN  /\ CovarianceLen(c) = MaxPairs
           /\ CovarianceMeanX(c) # CovarianceMeanY(c)
           /\ SampleVarianceX(c) # SampleVarianceY(c)
           /\ IsFinite(SampleCovariance(c))
           /\ SampleCovariance(c) # R(0)

(***************************************************************************)
(* Claims about the unweighted part of WeightedMeanWithError.              *)
(***************************************************************************)
\* C20: after any adds and merges, len(), unweighted_mean(),
\* population_variance() and sample_variance() of a WeightedMeanWithError
\* equal those of a MeanWithError that received the same samples by the
\* corresponding adds and merges, whatever the weights, zero included.
C20_UnweightedIgnoresWeights ==
    \A i \in WSlots :
        /\ WeightedMeanWithErrorLen(wmerr[i]) = VarianceLen(wtwin[i])
        /\ WeightedMeanWithErrorLen(wmerr[i]) = Len(wsamples[i])
        /\ WeightedMeanWithErrorIsEmpty(wmerr[i]) = VarianceIsEmpty(wtwin[i])
        /\ WeightedMeanWithErrorUnweightedMean(wmerr[i]) = VarianceMean(wtwin[i])
        /\ WeightedMeanWithErrorPopulationVariance(wmerr[i])
               = PopulationVariance(wtwin[i])
        /\ WeightedMeanWithErrorSampleVariance(wmerr[i]) = SampleVariance(wtwin[i])

\* a merge of an estimator whose samples all have weight zero into one that
\* holds a sample of another value with a positive weight
C20_Witness ==
    /\ wLastOp.op = "merge"
    /\ LET d == wLastOp.dst
           s == wLastOp.src
       IN  /\ wsamples[s] # <<>>
           /\ \A k \in 1..Len(wsamples[s]) : wsamples[s][k][2] = R(0)
           /\ \E k \in 1..Len(wsamples[d]) : wsamples[d][k][2] = R(2)
           /\ WeightedMeanWithErrorLen(wmerr[d]) >= 2
           /\ IsFinite(WeightedMeanWithErrorSampleVariance(wmerr[d]))
           /\ WeightedMeanWithErrorSampleVariance(wmerr[d]) # R(0)

(***************************************************************************)
(* Claims about the queries of Moments4.                                   *)
(***************************************************************************)
\* the square root of v is a rational number, so that FSqrt(v) is exact
SqrtExact(v) == IsFinite(v) /\ v[1] >= 0 /\ FMul(FSqrt(v), FSqrt(v)) = v

\* v to the power p / 2, for a v with a rational square root
HalfPow(v, p) ==
    IF p % 2 = 0 THEN FPow(v, p \div 2)
    ELSE FMul(FPow(v, (p - 1) \div 2), FSqrt(v))

\* central_moment(0) = 1, central_moment(1) = 0, central_moment(p) = m_p / n
CentralMomentsAsClaimed(mo) ==
    /\ Moments4CentralMoment(mo, 0) = R(1)
    /\ Moments4CentralMoment(mo, 1) = R(0)
    /\ \A p \in 2..MAX_MOMENT :
           Moments4CentralMoment(mo, p) = FDiv(mo.m[p - 1], R(mo.n))

\* C21: for a non-empty Moments4, central_moment(0) = 1, central_moment(1)
\* = 0, central_moment(p) = m_p / n for 2 <= p <= P; standardized_moment(p)
\* = central_moment(p) / variance^(p/2) for every p in 0..P, and it fails
\* its assertion when the variance is exactly 0 and p >= 3.
C21_StandardizedIsRatio ==
    \A i \in Slots :
        LET mo == moments4[i]
            var_2 == Moments4CentralMoment(mo, 2)
        IN  ~Moments4IsEmpty(mo) =>
                /\ CentralMomentsAsClaimed(mo)
                /\ \A p \in 3..MAX_MOMENT :
                       FEq(var_2, R(0)) => Moments4StandardizedMoment(mo, p) = Panics
                /\ \A p \in 0..MAX_MOMENT :
                       SqrtExact(var_2) /\ ~FEq(var_2, R(0)) =>
                           Moments4StandardizedMoment(mo, p)
                               = Returns(FDiv(Moments4CentralMoment(mo, p),
                                              HalfPow(var_2, p)))

\* C21, as the code has it: standardized_moment(0) is the count,
\* standardized_moment(1) is 0 and standardized_moment(2) is 1 whatever the
\* variance; for p >= 3 it fails its assertion exactly when the variance is
\* 0 and is central_moment(p) / variance^(p/2) otherwise.
C21_StandardizedFromThree ==
    \A i \in Slots :
        LET mo == moments4[i]
            var_2 == Moments4CentralMoment(mo, 2)
        IN  ~Moments4IsEmpty(mo) =>
                /\ CentralMomentsAsClaimed(mo)
                /\ Moments4StandardizedMoment(mo, 0) = Returns(R(Moments4Len(mo)))
                /\ Moments4StandardizedMoment(mo, 1) = Returns(R(0))
                /\ Moments4StandardizedMoment(mo, 2) = Returns(R(1))
                /\ \A p \in 3..MAX_MOMENT :
                       /\ Moments4StandardizedMoment(mo, p) = Panics
                              <=> FEq(var_2, R(0))
                       /\ SqrtExact(var_2) /\ ~FEq(var_2, R(0)) =>
                              Moments4StandardizedMoment(mo, p)
                                  = Returns(FDiv(Moments4CentralMoment(mo, p),
                                                 HalfPow(var_2, p)))

\* one estimator of two or more samples with a positive variance and a
\* fourth moment that is not zero, another of equal samples (variance 0)
C21_Witness ==
    \E i \in Slots, j \in Slots :
        /\ Moments4Len(moments4[i]) >= 2
        /\ SqrtExact(Moments4CentralMoment(moments4[i], 2))
        /\ FGt(Moments4CentralMoment(moments4[i], 2), R(0))
        /\ FGt(Moments4CentralMoment(moments4[i], 4), R(0))
        /\ Moments4StandardizedMoment(moments4[i], 4).tag = "Ok"
        /\ Moments4Len(moments4[j]) >= 2
        /\ Moments4StandardizedMoment(moments4[j], 3) = Panics

(***************************************************************************)
(* SpecPar: from_par_iter.  The scheduler splits the input into parts,     *)
(* hands every part to one worker, which folds its items into a partial    *)
(* result of its own, and reduces finished partial results pairwise, in    *)
(* any order, starting further results from new() as it pleases.           *)
(*                                                                         *)
(* A part is a record: lo..hi the indices of its items, pos the next item  *)
(* to fold, phase "idle" / "folding" / "done", owner the worker folding it *)
(* (0 for none), e its partial result, and the ghosts writers (the workers *)
(* that wrote e), items (the items e stands for) and merges (how many      *)
(* reductions of two results that both stand for items made it).           *)
(***************************************************************************)
MaxInput == 3
MaxPieces == 3
Workers == {1, 2}
ParVals == {R(-1), R(2)}

NewPiece(lo, hi) ==
    [lo |-> lo, hi |-> hi, pos |-> lo, phase |-> "idle", owner |-> 0, e |-> ParNew,
     writers |-> {}, items |-> <<>>, merges |-> 0]

RemoveAt(s, k) == [i \in 1..(Len(s) - 1) |-> IF i < k THEN s[i] ELSE s[i + 1]]

InitPar ==
    /\ MomentsIdle
    /\ WeightedIdle
    /\ HistIdle
    /\ QuantIdle
    /\ MinMaxIdle
    /\ DistinctIdle
    /\ CovIdle
    /\ pinput \in SeqsUpTo(ParVals, MaxInput)
    /\ pieces = <<NewPiece(1, Len(pinput))>>

\* the scheduler splits a part no worker has started
ParSplit(k, mid) ==
    /\ pieces[k].phase = "idle"
    /\ Len(pieces) < MaxPieces
    /\ pieces[k].lo <= mid /\ mid < pieces[k].hi
    /\ pieces' = SubSeq(pieces, 1, k - 1)
                 \o <<NewPiece(pieces[k].lo, mid), NewPiece(mid + 1, pieces[k].hi)>>
                 \o SubSeq(pieces, k + 1, Len(pieces))
    /\ UNCHANGED <<pinput, momentsVars, weightedVars, histVars, quantVars, minmaxVars, distinctVars, covVars>>

\* a free worker takes a part: its fold starts from new()
ParStart(k, w) ==
    /\ pieces[k].phase = "idle"
    /\ \A j \in 1..Len(pieces) : pieces[j].owner # w
    /\ LET pc == pieces[k]
           empty == pc.lo > pc.hi
       IN  pieces' = [pieces EXCEPT ![k] =
               [@ EXCEPT !.phase = IF empty THEN "done" ELSE "folding",
                         !.owner = IF empty THEN 0 ELSE w,
                         !.e = ParNew,
                         !.writers = pc.writers \cup {w}]]
    /\ UNCHANGED <<pinput, momentsVars, weightedVars, histVars, quantVars, minmaxVars, distinctVars, covVars>>

\* the worker of a part folds its next item into the partial result
ParFold(k) ==
    /\ pieces[k].phase = "folding"
    /\ LET pc == pieces[k]
           last == pc.pos = pc.hi
       IN  pieces' = [pieces EXCEPT ![k] =
               [@ EXCEPT !.e = ParFoldStep(pc.e, pinput[pc.pos]),
                         !.pos = pc.pos + 1,
                         !.items = Append(pc.items, pinput[pc.pos]),
                         !.writers = pc.writers \cup {pc.owner},
                         !.phase = IF last THEN "done" ELSE "folding",
                         !.owner = IF last THEN 0 ELSE pc.owner]]
    /\ UNCHANGED <<pinput, momentsVars, weightedVars, histVars, quantVars, minmaxVars, distinctVars, covVars>>

\* the reduction starts a further result from its identity, new()
ParIdentity ==
    /\ Len(pieces) < MaxPieces
    /\ pieces' = Append(pieces, [NewPiece(1, 0) EXCEPT !.phase = "done"])
    /\ UNCHANGED <<pinput, momentsVars, weightedVars, histVars, quantVars, minmaxVars, distinctVars, covVars>>

\* two finished partial results are reduced: a.merge(&b)
ParReduce(i, j) ==
    /\ i # j
    /\ pieces[i].phase = "done" /\ pieces[j].phase = "done"
    /\ LET merged == [pieces[i] EXCEPT
                          !.e = ParReduceStep(pieces[i].e, pieces[j].e),
                          !.items = pieces[i].items \o pieces[j].items,
                          !.merges = pieces[i].merges + pieces[j].merges
                                     + IF pieces[i].items # <<>> /\ pieces[j].items # <<>>
                                       THEN 1 ELSE 0]
       IN  pieces' = RemoveAt([pieces EXCEPT ![i] = merged], j)
    /\ UNCHANGED <<pinput, momentsVars, weightedVars, histVars, quantVars, minmaxVars, distinctVars, covVars>>

NextPar ==
    \/ \E k \in 1..Len(pieces), mid \in 1..MaxInput : ParSplit(k, mid)
    \/ \E k \in 1..Len(pieces), w \in Workers : ParStart(k, w)
    \/ \E k \in 1..Len(pieces) : ParFold(k)
    \/ ParIdentity
    \/ \E i \in 1..Len(pieces), j \in 1..Len(pieces) : ParReduce(i, j)

SpecPar == InitPar /\ [][NextPar]_vars

\* one estimator of each kind, fed the sequence s in order
RECURSIVE SequentialOf(_)
SequentialOf(s) ==
    IF s = <<>> THEN ParNew ELSE ParFoldStep(SequentialOf(Front(s)), Last(s))

\* the reduction is over: one result is left, and it stands for every item
ParFinished ==
    /\ Len(pieces) = 1
    /\ pieces[1].phase = "done"
    /\ Len(pieces[1].items) = Len(pinput)

\* C22: when every part has been folded by one worker from new() and the
\* partial results have been reduced with merge, in any grouping and order
\* and with new() as identity, the final Min, Max, Mean and Variance have
\* the state of estimators fed the whole input sequentially; no partial
\* result is written by two workers.
C22_ParallelIsSequential ==
    /\ ParFinished => pieces[1].e = SequentialOf(pinput)
    /\ \A k \in 1..Len(pieces) :
           /\ Cardinality(pieces[k].writers) <= 1
           /\ pieces[k].phase = "folding" => pieces[k].writers = {pieces[k].owner}
           /\ \A j \in 1..Len(pieces) :
                  j # k /\ pieces[k].phase = "folding" /\ pieces[j].phase = "folding"
                      => pieces[j].owner # pieces[k].owner

\* the input of MaxInput items, not all equal, was folded in parts and the
\* final result was made by two reductions
C22_Witness ==
    /\ ParFinished
    /\ Len(pinput) = MaxInput
    /\ pieces[1].merges >= 2
    /\ MinMin(pieces[1].e.min) # MaxMax(pieces[1].e.max)
    /\ FGt(PopulationVariance(pieces[1].e.variance), R(0))

(***************************************************************************)
(* Claims about the accumulators of the moments chain.                     *)
(***************************************************************************)
RECURSIVE SumOf(_)
SumOf(s) == IF s = <<>> THEN R(0) ELSE FAdd(SumOf(Front(s)), Last(s))

\* the arithmetic mean of a non-empty sequence
MeanOf(s) == FDiv(SumOf(s), R(Len(s)))

\* the sum of (x - mu)^p over the elements x of s
CentralSum(s, mu, p) == SumOf([k \in 1..Len(s) |-> FPow(FSub(s[k], mu), p)])

\* C23: after any finite samples fed through Kurtosis::add the mean is the
\* arithmetic mean mu of the samples and sum_2, sum_3, sum_4 are the sums of
\* (x - mu)^2, (x - mu)^3, (x - mu)^4; the embedded Skewness, Variance and
\* Mean equal standalone estimators fed the same sequence.
C23_KurtosisSumsExact ==
    \A i \in Slots :
        LET s == samples[i]
            k == KurtosisFromIter(s)
        IN  /\ KurtosisLen(k) = Len(s)
            /\ k.avg = SkewnessFromIter(s)
            /\ k.avg.avg = VarianceFromIter(s)
            /\ k.avg.avg.avg = MeanFromIter(s)
            /\ s # <<>> =>
                   /\ KurtosisMean(k) = MeanOf(s)
                   /\ k.avg.avg.sum_2 = CentralSum(s, MeanOf(s), 2)
                   /\ k.avg.sum_3 = CentralSum(s, MeanOf(s), 3)
                   /\ k.sum_4 = CentralSum(s, MeanOf(s), 4)
            /\ lastOp.op = "add" /\ lastOp.dst = i /\ kurtosis[i] = k =>
                   /\ kurtosis[i].avg = skewness[i]
                   /\ skewness[i].avg = variance[i]
                   /\ variance[i].avg = mean[i]

\* a Kurtosis that received MaxTotal samples by add only, with a third and a
\* fourth sum that are not zero
C23_Witness ==
    /\ lastOp.op = "add"
    /\ LET i == lastOp.dst
       IN  /\ Len(samples[i]) = MaxTotal
           /\ kurtosis[i] = KurtosisFromIter(samples[i])
           /\ kurtosis[i].avg.sum_3 # R(0)
           /\ kurtosis[i].sum_4 # R(0)
           /\ kurtosis[i].avg.avg.sum_2 # R(0)

ExpectedHeight(self, i) ==
    LET d == FSub(self.m[i + 1], R(self.n[i + 1]))
        s == IF FGt(d, R(0)) THEN 1 ELSE -1
        para == Parabolic(self, i, s)
    IN  IF FLt(self.q[i], para) /\ FLt(para, self.q[i + 2])
        THEN para
        ELSE Linear(self, i, s)

\* one adjustment step from before to after for the 0-based marker i
HeightAsClaimed(before, after, i) ==
    IF AdjustTaken(before, i)
    THEN after.q[i + 1] = ExpectedHeight(before, i)
    ELSE after.q[i + 1] = before.q[i + 1]

C26_ExtremeRanks ==
    quant # NoQuantile =>
        /\ QuantileLen(quant) = Len(qsamples)
        /\ QuantileLen(quant) >= 5 =>
               /\ quant.n[5] = Len(qsamples)
               /\ quant.n[1] = 1

(***************************************************************************)
(* C27: add on a full buffer with a key below the sampling rate.           *)
(***************************************************************************)
Buffered(self) == {self.buffer[i] : i \in 1..Len(self.buffer)}

\* the adds the statement is about: the buffer holds N entries and the key
\* drawn is below the sampling rate
FullBufferAdds ==
    {au \in DItems \X KeyVals :
        Len(distinct.buffer) = N /\ FLt(au[2], distinct.sampling_rate)}

\* C27 as stated: every such add evicts the pair with the maximal key,
\* stores the new pair and sets the sampling rate to the evicted key if the
\* new key is smaller and to the new key otherwise; the buffer still holds
\* N entries and contains the new item.
C27_AlwaysSwapped ==
    \A au \in FullBufferAdds :
        LET mx == DistinctFindMax(distinct)
            post == DistinctAdd(distinct, au[1], au[2])
        IN  /\ Len(post.buffer) = N
            /\ au \in Buffered(post)
            /\ (mx # au) => mx \notin Buffered(post)
            /\ post.sampling_rate = IF FLt(au[2], mx[2]) THEN mx[2] ELSE au[2]

\* C27: such an add of an item that is already buffered replaces its pair
\* and leaves the sampling rate alone; for an item that is not buffered, a
\* key above the maximal buffered key leaves the buffer as it is, the item
\* not stored, and becomes the sampling rate, and any other key evicts the
\* pair with the maximal key, stores the new pair and makes the evicted key
\* the sampling rate; the buffer holds N entries afterwards.
C27_SwapOnlySmallerKeys ==
    \A au \in FullBufferAdds :
        LET a == au[1]
            u == au[2]
            mx == DistinctFindMax(distinct)
            post == DistinctAdd(distinct, a, u)
            held == \E e \in Buffered(distinct) : e[1] = a
        IN  /\ Len(post.buffer) = N
            /\ IF held
               THEN /\ Buffered(post) =
                           {e \in Buffered(distinct) : e[1] # a} \cup {au}
                    /\ post.sampling_rate = distinct.sampling_rate
               ELSE IF FGt(u, mx[2])
               THEN /\ post.buffer = distinct.buffer
                    /\ \A e \in Buffered(post) : e[1] # a
                    /\ post.sampling_rate = u
               ELSE /\ Buffered(post) = (Buffered(distinct) \ {mx}) \cup {au}
                    /\ post.sampling_rate = mx[2]

\* the last add drew a key below the sampling rate and above every key of
\* the full buffer: the key is the sampling rate now and the item is not
\* buffered
C27_Witness ==
    /\ dres.op = "add"
    /\ Len(distinct.buffer) = N
    /\ distinct.sampling_rate = dres.u
    /\ FLt(dres.u, R(1))
    /\ \A e \in Buffered(distinct) : e[1] # dres.a /\ FLt(e[2], dres.u)
    /\ FullBufferAdds # {}

(***************************************************************************)
(* C28: the weighted mean of samples some of which have weight zero.       *)
(***************************************************************************)
\* the exact sums of the weights and of weight * sample over a sequence of
\* <<sample, weight>> pairs
RECURSIVE SumOfWeights(_)
SumOfWeights(s) ==
    IF s = <<>> THEN R(0) ELSE FAdd(SumOfWeights(Front(s)), Last(s)[2])

RECURSIVE SumOfWeighted(_)
SumOfWeighted(s) ==
    IF s = <<>> THEN R(0)
    ELSE FAdd(SumOfWeighted(Front(s)), FMul(Last(s)[2], Last(s)[1]))

\* C28: after the add calls of any sequence of finite samples with
\* non-negative weights, mean() is NaN if and only if the sum of the
\* weights is zero, and is otherwise the sum of weight * sample divided by
\* the sum of the weights.
C28_WeightedMeanExact ==
    \A i \in WSlots :
        LET est == WeightedMeanFromIter(wsamples[i])
            sw == SumOfWeights(wsamples[i])
        IN  /\ IsNaN(WeightedMeanMean(est)) <=> (sw = R(0))
            /\ sw # R(0) =>
                   WeightedMeanMean(est) = FDiv(SumOfWeighted(wsamples[i]), sw)

(***************************************************************************)
(* C29: samples that belong to no bin.                                     *)
(***************************************************************************)
\* x lies in none of the bins [range[i], range[i + 1]) of h
InNoBin(h, x) ==
    \A i \in 1..LEN : ~(FLe(h.range[i], x) /\ FLt(x, h.range[i + 1]))

\* C29: add(x) and find(x) never panic, and an add of a sample that belongs
\* to no bin, a NaN sample included, returns Err and leaves the histogram
\* unchanged.
C29_NoPanicOnAnySample ==
    /\ hres.op = "add" =>
           /\ hres.out \in {"Ok", "Err"}
           /\ InNoBin(hres.before, hres.arg) =>
                  hres.out = "Err" /\ hist[hres.k] = hres.before
    /\ hres.out # "Panic" =>
           \A k \in HSlots, x \in HSampleVals :
               /\ Find(searchImpl, hist[k], x).tag \in {"Ok", "Err"}
               /\ InNoBin(hist[k], x) => Find(searchImpl, hist[k], x).tag = "Err"

(***************************************************************************)
(* C30: the debug assertions of skewness() and kurtosis().                 *)
(***************************************************************************)
AllEqual(s) == s # <<>> /\ \A k \in 1..Len(s) : s[k] = s[1]

\* C30: in every state reached by add and merge on finite samples sum_2 is
\* never negative, sum_2 == 0 implies sum_3 == 0 and sum_4 == 0, the debug
\* assertions of skewness() and kurtosis() hold, and both queries return 0
\* for samples that are all equal.
C30_AssertionsHold ==
    \A i \in Slots :
        /\ FGe(skewness[i].avg.sum_2, R(0))
        /\ FGe(kurtosis[i].avg.avg.sum_2, R(0))
        /\ FEq(skewness[i].avg.sum_2, R(0)) => FEq(skewness[i].sum_3, R(0))
        /\ FEq(kurtosis[i].avg.avg.sum_2, R(0)) =>
               FEq(kurtosis[i].avg.sum_3, R(0)) /\ FEq(kurtosis[i].sum_4, R(0))
        /\ SkewnessSkewness(skewness[i]).tag = "Ok"
        /\ SkewnessSkewness(kurtosis[i].avg).tag = "Ok"
        /\ KurtosisKurtosis(kurtosis[i]).tag = "Ok"
        /\ AllEqual(samples[i]) =>
               /\ SkewnessSkewness(skewness[i]) = Returns(R(0))
               /\ KurtosisKurtosis(kurtosis[i]) = Returns(R(0))

\* two or more equal samples in one estimator (sum_2 is zero and both
\* queries return 0), next to an estimator of spread-out samples whose
\* kurtosis() passes its assertion and divides by sum_2 squared
C30_Witness ==
    \E i \in Slots, j \in Slots :
        /\ AllEqual(samples[i])
        /\ Len(samples[i]) >= 2
        /\ FEq(kurtosis[i].avg.avg.sum_2, R(0))
        /\ SkewnessSkewness(skewness[i]) = Returns(R(0))
        /\ KurtosisKurtosis(kurtosis[i]) = Returns(R(0))
        /\ ~FEq(kurtosis[j].sum_4, R(0))
        /\ KurtosisKurtosis(kurtosis[j]).tag = "Ok"
        /\ KurtosisKurtosis(kurtosis[j]).val # R(0)

====
